---- MODULE Spec2Model ----
(***************************************************************************)
(* A model of the ETEC+ datafeeds core: the normalizer, the mapping         *)
(* resolver and the merge / de-duplication engine of src/src/core and       *)
(* src/main.py.                                                             *)
(*                                                                          *)
(* Text is a sequence of one-character strings, so that the code's          *)
(* character-level operations (comma stripping, numeric parsing, URL-shape  *)
(* tests) are computed.  Numbers are fixed-point integers in hundredths:    *)
(* Num(1999) is 19.99.  A cell of a table is a record [k, s, n].            *)
(***************************************************************************)
EXTENDS Integers, Sequences, FiniteSets, TLC

VARIABLES
    pc,               \* position of the current pass
    uploaded_files,   \* the supplier files in upload order: [name, df]
    supplier_mappings,\* supplier -> mapping: a sequence of [f, custom, v]
    shopify_fields,   \* the template's field list
    all_data,         \* process_files' result: one table per accepted file
    combined_df,      \* the concatenated working table
    final_df,         \* the table after duplicate removal / export fix-ups
    duplicates_info,  \* the removal report
    outcome,          \* "none" | "nodata" | "returned" | "raised"
    argsort_memo,     \* the build's sort, revealed so far: keys -> order
    run,              \* 1 or 2: the pass being executed
    first_result,     \* the first pass's result, kept for comparison
    norm_in,          \* normalizer harness: the input table
    norm_out,         \* normalizer harness: the output table
    map_in,           \* resolver harness: [df, mapping]
    map_out,          \* resolver harness: the resolved columns
    quote_df,         \* the quote index (quoting/export_data_for_quoting.csv)
    search_terms,     \* the terms of the last product search
    search_results,   \* st.session_state.search_results: [ok, df]
    best_product,     \* the best-price product of the last search
    fn_in,            \* field-parser harness: the arguments
    fn_out            \* field-parser harness: the value returned

vars == <<pc, uploaded_files, supplier_mappings, shopify_fields, all_data,
          combined_df, final_df, duplicates_info, outcome, argsort_memo,
          run, first_result, norm_in, norm_out, map_in, map_out,
          quote_df, search_terms, search_results, best_product, fn_in, fn_out>>

quoting == <<quote_df, search_terms, search_results, best_product>>
parsers == <<fn_in, fn_out>>

(***************************************************************************)
(* Bounds of the model.                                                     *)
(***************************************************************************)
MaxRows == 3
MaxCellLen == 3

(***************************************************************************)
(* Text helpers.                                                            *)
(***************************************************************************)
RECURSIVE SeqOfLen(_, _)
SeqOfLen(S, n) ==
    IF n = 0 THEN {<<>>}
    ELSE {Append(s, x) : s \in SeqOfLen(S, n - 1), x \in S}

SeqUpTo(S, n) == UNION {SeqOfLen(S, i) : i \in 0..n}

UpperLetters == <<"A","B","C","D","E","F","G","H","I","J","K","L","M",
                  "N","O","P","Q","R","S","T","U","V","W","X","Y","Z">>
LowerLetters == <<"a","b","c","d","e","f","g","h","i","j","k","l","m",
                  "n","o","p","q","r","s","t","u","v","w","x","y","z">>
DigitChars == <<"0","1","2","3","4","5","6","7","8","9">>

DigitSet == {DigitChars[i] : i \in 1..10}
DigitValues == [c \in DigitSet |-> (CHOOSE i \in 1..10 : DigitChars[i] = c) - 1]

IsDigit(c) == c \in DigitSet
DigitVal(c) == DigitValues[c]

UpperSet == {UpperLetters[i] : i \in 1..26}
LowerSet == {LowerLetters[i] : i \in 1..26}
ToLower == [c \in UpperSet |-> LowerLetters[CHOOSE i \in 1..26 : UpperLetters[i] = c]]
ToUpper == [c \in LowerSet |-> UpperLetters[CHOOSE i \in 1..26 : LowerLetters[i] = c]]

LowerChar(c) == IF c \in UpperSet THEN ToLower[c] ELSE c

\* str.lower()
Lower(s) == [i \in 1..Len(s) |-> LowerChar(s[i])]

IsSpace(c) == c \in {" ", "\t", "\n"}

RECURSIVE LStrip(_)
LStrip(s) == IF s # <<>> /\ IsSpace(Head(s)) THEN LStrip(Tail(s)) ELSE s

RECURSIVE RStrip(_)
RStrip(s) ==
    IF s # <<>> /\ IsSpace(s[Len(s)]) THEN RStrip(SubSeq(s, 1, Len(s) - 1)) ELSE s

\* str.strip()
Strip(s) == RStrip(LStrip(s))

\* str.startswith(p)
StartsWith(s, p) == Len(p) <= Len(s) /\ SubSeq(s, 1, Len(p)) = p

\* p in s (substring test)
Contains(s, p) ==
    \E i \in 1..(Len(s) - Len(p) + 1) : SubSeq(s, i, i + Len(p) - 1) = p

\* str.replace(c, '') for a one-character c
RECURSIVE RemoveChar(_, _)
RemoveChar(s, c) ==
    IF s = <<>> THEN <<>>
    ELSE IF Head(s) = c THEN RemoveChar(Tail(s), c)
    ELSE <<Head(s)>> \o RemoveChar(Tail(s), c)

AllDigits(s) == \A i \in 1..Len(s) : IsDigit(s[i])

RECURSIVE DigitsVal(_)
DigitsVal(s) ==
    IF s = <<>> THEN 0
    ELSE 10 * DigitsVal(SubSeq(s, 1, Len(s) - 1)) + DigitVal(s[Len(s)])

RECURSIVE NatChars(_)
NatChars(n) ==
    IF n < 10 THEN <<DigitChars[n + 1]>>
    ELSE NatChars(n \div 10) \o <<DigitChars[(n % 10) + 1]>>

(***************************************************************************)
(* Cells.                                                                   *)
(***************************************************************************)
Str(s) == [k |-> "str", s |-> s, n |-> 0]
Num(n) == [k |-> "num", s |-> <<>>, n |-> n]
NaN == [k |-> "nan", s |-> <<>>, n |-> 0]
\* +inf (n = 1) and -inf (n = -1)
Inf(sign) == [k |-> "inf", s |-> <<>>, n |-> sign]

EmptyStr == Str(<<>>)

\* pd.isna
IsNa(cell) == cell.k = "nan"

\* The text of a float, as str() prints it: 19.99, 19.5, 19.0, -1.5.
FormatNum(n) ==
    LET a == IF n < 0 THEN -n ELSE n
        frac == a % 100
        fracChars == IF frac % 10 = 0
                     THEN <<DigitChars[(frac \div 10) + 1]>>
                     ELSE <<DigitChars[(frac \div 10) + 1], DigitChars[(frac % 10) + 1]>>
    IN  (IF n < 0 THEN <<"-">> ELSE <<>>) \o NatChars(a \div 100) \o <<".">> \o fracChars

\* astype(str) / str(x) of one cell
AsStr(cell) ==
    CASE cell.k = "str" -> cell.s
      [] cell.k = "num" -> FormatNum(cell.n)
      [] cell.k = "nan" -> <<"n","a","n">>
      [] cell.k = "inf" -> IF cell.n < 0 THEN <<"-","i","n","f">> ELSE <<"i","n","f">>

\* The fraction digits of a decimal literal, in hundredths (two decimals are
\* carried; the bounded inputs have no more).
FracVal(f) ==
    IF f = <<>> THEN 0
    ELSE IF Len(f) = 1 THEN 10 * DigitVal(f[1])
    ELSE 10 * DigitVal(f[1]) + DigitVal(f[2])

\* An unsigned decimal literal: digits, optionally a point and digits.
IsDecimal(body) ==
    LET dots == {i \in 1..Len(body) : body[i] = "."}
    IN  IF dots = {} THEN body # <<>> /\ AllDigits(body)
        ELSE /\ Cardinality(dots) = 1
             /\ LET d == CHOOSE i \in dots : TRUE
                    ip == SubSeq(body, 1, d - 1)
                    fp == SubSeq(body, d + 1, Len(body))
                IN  AllDigits(ip) /\ AllDigits(fp) /\ (ip # <<>> \/ fp # <<>>)

DecimalVal(body) ==
    LET dots == {i \in 1..Len(body) : body[i] = "."}
    IN  IF dots = {} THEN 100 * DigitsVal(body)
        ELSE LET d == CHOOSE i \in dots : TRUE
             IN  100 * DigitsVal(SubSeq(body, 1, d - 1))
                   + FracVal(SubSeq(body, d + 1, Len(body)))

\* pd.to_numeric(x, errors='coerce') of one text cell: a signed decimal is a
\* number, "inf"/"infinity" an infinity, anything else (also '' and 'nan') NaN.
ToNumeric(s) ==
    LET neg == s # <<>> /\ Head(s) = "-"
        signed == s # <<>> /\ Head(s) \in {"-", "+"}
        body == IF signed THEN Tail(s) ELSE s
        low == Lower(body)
    IN  IF IsDecimal(body) THEN Num(IF neg THEN -DecimalVal(body) ELSE DecimalVal(body))
        ELSE IF low \in {<<"i","n","f">>, <<"i","n","f","i","n","i","t","y">>}
             THEN Inf(IF neg THEN -1 ELSE 1)
        ELSE NaN

\* Series.fillna(v)
FillNa(cell, v) == IF IsNa(cell) THEN v ELSE cell

(***************************************************************************)
(* Tables.  A table is [cols, rows]: cols the column names in order, rows   *)
(* a sequence of [idx, c]: idx the row's index label, c the cells by        *)
(* column name.                                                             *)
(***************************************************************************)
Range(s) == {s[i] : i \in 1..Len(s)}

NoTable == [cols |-> <<>>, rows |-> <<>>]

HasCol(df, col) == col \in Range(df.cols)

\* df[col] = f(old cell), column by column
MapCells(df, f(_, _)) ==
    [df EXCEPT !.rows = [i \in 1..Len(df.rows) |->
        [df.rows[i] EXCEPT !.c = [col \in DOMAIN df.rows[i].c |-> f(col, df.rows[i].c[col])]]]]

\* df[col] = value for a scalar or per-row value v(i); the column is appended
\* when new and keeps its place when it exists.
SetCol(df, col, v(_)) ==
    [cols |-> IF HasCol(df, col) THEN df.cols ELSE Append(df.cols, col),
     rows |-> [i \in 1..Len(df.rows) |->
        [df.rows[i] EXCEPT !.c =
            [x \in DOMAIN df.rows[i].c \cup {col} |->
                IF x = col THEN v(i) ELSE df.rows[i].c[x]]]]]

(***************************************************************************)
(* Normalizer: data_processing.normalize_dataframe_types.                   *)
(***************************************************************************)
numeric_columns ==
    {"Variant Inventory Qty", "Variant Price", "Cost per item", "Variant Grams"}

NullTexts == {<<"n","a","n">>, <<"N","o","n","e">>, <<"N","a","N">>, <<"<","N","A",">">>}

\* One cell of a numeric column: astype(str), commas removed, to_numeric with
\* errors='coerce', fillna(0).
NormalizeNumericCell(cell) ==
    FillNa(ToNumeric(RemoveChar(AsStr(cell), ",")), Num(0))

\* One cell of any other column: fillna(''), astype(str), null texts to ''.
NormalizeTextCell(cell) ==
    LET t == AsStr(FillNa(cell, EmptyStr))
    IN  IF t \in NullTexts THEN EmptyStr ELSE Str(t)

NormalizeCell(col, cell) ==
    IF col \in numeric_columns THEN NormalizeNumericCell(cell)
    ELSE NormalizeTextCell(cell)

normalize_dataframe_types(df) == MapCells(df, NormalizeCell)

(***************************************************************************)
(* Field parsers: data_processing.extract_quantity, convert_weight_to_grams *)
(* and truncate_title.                                                      *)
(***************************************************************************)
UpperChar(c) == IF c \in LowerSet THEN ToUpper[c] ELSE c

Upper(s) == [i \in 1..Len(s) |-> UpperChar(s[i])]

InStockTexts == {<<"I","N"," ","S","T","O","C","K">>,
                 <<"A","V","A","I","L","A","B","L","E">>, <<"Y","E","S">>}
OutOfStockTexts == {<<"O","U","T"," ","O","F"," ","S","T","O","C","K">>, <<"N","O">>,
                    <<"D","I","S","C","O","N","T","I","N","U","E","D">>}
InStockQty == 999

\* re.search(r'(\d+)', s): the first maximal run of digits, <<>> when none
RECURSIVE TakeDigits(_)
TakeDigits(s) ==
    IF s # <<>> /\ IsDigit(Head(s)) THEN <<Head(s)>> \o TakeDigits(Tail(s)) ELSE <<>>

RECURSIVE FirstDigitRun(_)
FirstDigitRun(s) ==
    IF s = <<>> THEN <<>>
    ELSE IF IsDigit(Head(s)) THEN TakeDigits(s)
    ELSE FirstDigitRun(Tail(s))

\* A parser that knows no stock vocabulary and reads digits only.
QuantityFromDigitsOnly(cell) ==
    IF IsNa(cell) \/ cell = EmptyStr THEN 0
    ELSE LET q == Upper(Strip(AsStr(cell)))
         IN  IF FirstDigitRun(q) # <<>> THEN DigitsVal(FirstDigitRun(q)) ELSE 0

\* The quantity as an integer (units, not hundredths).
extract_quantity(cell) ==
    IF IsNa(cell) \/ cell = EmptyStr THEN 0
    ELSE LET q == Upper(Strip(AsStr(cell)))
         IN  IF q \in InStockTexts THEN InStockQty
             ELSE IF q \in OutOfStockTexts THEN 0
             ELSE IF FirstDigitRun(q) # <<>> THEN DigitsVal(FirstDigitRun(q))
             ELSE 0

\* re.sub(r'[^\d.]', '', s)
KeepDigitsAndDots(s) == SelectSeq(s, LAMBDA c : IsDigit(c) \/ c = ".")

\* Thousandths of the fraction digits f, rounded on the fourth digit.
MilliFrac(f) ==
    LET d(i) == IF i <= Len(f) THEN DigitVal(f[i]) ELSE 0
    IN  100 * d(1) + 10 * d(2) + d(3) + (IF d(4) >= 5 THEN 1 ELSE 0)

\* The weight in grams as an integer: kilograms times 1000, rounded.
convert_weight_to_grams(cell) ==
    IF IsNa(cell) \/ cell = EmptyStr THEN 0
    ELSE LET clean == KeepDigitsAndDots(Strip(AsStr(cell)))
             dots == {i \in 1..Len(clean) : clean[i] = "."}
         IN  IF clean = <<>> THEN 0
             ELSE IF ~IsDecimal(clean) THEN 0       \* float() raises ValueError
             ELSE IF dots = {} THEN 1000 * DigitsVal(clean)
             ELSE LET p == CHOOSE i \in dots : TRUE
                  IN  1000 * DigitsVal(SubSeq(clean, 1, p - 1))
                        + MilliFrac(SubSeq(clean, p + 1, Len(clean)))

TitleMaxLength == 255

\* A truncation that always appends the ellipsis and never re-checks.
TruncateWithEllipsis(cell, max_length) ==
    IF IsNa(cell) \/ cell = EmptyStr THEN <<>>
    ELSE LET t == Strip(AsStr(cell))
             n == IF max_length >= 3 THEN max_length - 3 ELSE 0
         IN  IF Len(t) <= max_length THEN t
             ELSE SubSeq(t, 1, n) \o <<".",".",".">>

\* A truncation that keeps the blanks around the title.
TruncateUnstripped(cell, max_length) ==
    IF IsNa(cell) \/ cell = EmptyStr THEN <<>>
    ELSE LET t == AsStr(cell)
             cut(s, n) == SubSeq(s, 1, IF n < Len(s) THEN n ELSE Len(s))
         IN  IF Len(t) <= max_length THEN t
             ELSE IF max_length >= 3 THEN cut(t, max_length - 3) \o <<".",".",".">>
             ELSE cut(t, max_length)

\* truncate_title(title_str, max_length): the text of the result
truncate_title(cell, max_length) ==
    IF IsNa(cell) \/ cell = EmptyStr THEN <<>>
    ELSE LET t == Strip(AsStr(cell))
             cut(s, n) == SubSeq(s, 1, IF n < Len(s) THEN n ELSE Len(s))
             truncated == IF max_length >= 3
                          THEN cut(t, max_length - 3) \o <<".",".",".">>
                          ELSE cut(t, max_length)
         IN  IF Len(t) <= max_length THEN t
             ELSE IF Len(truncated) > max_length THEN cut(truncated, max_length)
             ELSE truncated

(***************************************************************************)
(* Tag synthesizer: data_processing.generate_shopify_tags.                  *)
(***************************************************************************)
\* re.split(r'[\s/\\|,;:]+', value): the separators
IsTagSeparator(c) == IsSpace(c) \/ c \in {"/", "\\", "|", ",", ";", ":"}

IsLetter(c) == c \in UpperSet \/ c \in LowerSet

\* [\w\s\-_]: what re.sub(r'[^\w\s\-_]', '', part) keeps
IsTagChar(c) == IsLetter(c) \/ IsDigit(c) \/ c \in {"_", "-"} \/ IsSpace(c)

\* The parts of value between runs of separators (empty parts included at the
\* ends, as re.split returns them).
RECURSIVE SplitTagParts(_, _)
SplitTagParts(s, cur) ==
    IF s = <<>> THEN <<cur>>
    ELSE IF IsTagSeparator(Head(s))
         THEN IF Tail(s) # <<>> /\ IsTagSeparator(Head(Tail(s)))
              THEN SplitTagParts(Tail(s), cur)
              ELSE <<cur>> \o SplitTagParts(Tail(s), <<>>)
    ELSE SplitTagParts(Tail(s), Append(cur, Head(s)))

\* The cleaned, lower-cased tokens of one cell, single characters dropped.
CellTags(cell) ==
    IF IsNa(cell) \/ Strip(AsStr(cell)) = <<>> THEN <<>>
    ELSE LET parts == SplitTagParts(Strip(AsStr(cell)), <<>>)
             clean(p) == Strip(SelectSeq(p, IsTagChar))
             kept == SelectSeq([i \in 1..Len(parts) |-> clean(parts[i])],
                               LAMBDA t : t # <<>> /\ Len(t) > 1)
         IN  [i \in 1..Len(kept) |-> Lower(kept[i])]

\* A tag list that is joined as collected, repeats included.
KeepAllTags(tags, seen) == tags

\* Remove duplicates while preserving order.
RECURSIVE UniqueTags(_, _)
UniqueTags(tags, seen) ==
    IF tags = <<>> THEN <<>>
    ELSE IF Head(tags) \in seen THEN UniqueTags(Tail(tags), seen)
    ELSE <<Head(tags)>> \o UniqueTags(Tail(tags), seen \cup {Head(tags)})

\* ', '.join(tags)
RECURSIVE JoinTags(_)
JoinTags(tags) ==
    IF tags = <<>> THEN <<>>
    ELSE IF Len(tags) = 1 THEN tags[1]
    ELSE tags[1] \o <<",", " ">> \o JoinTags(Tail(tags))

RECURSIVE RowTags(_, _, _)
RowTags(df, row, tag_columns) ==
    IF tag_columns = <<>> THEN <<>>
    ELSE (IF HasCol(df, Head(tag_columns)) THEN CellTags(row.c[Head(tag_columns)]) ELSE <<>>)
         \o RowTags(df, row, Tail(tag_columns))

\* One tag text per row of df.
generate_shopify_tags(df, tag_columns) ==
    [i \in 1..Len(df.rows) |->
        Str(JoinTags(UniqueTags(RowTags(df, df.rows[i], tag_columns), {})))]

(***************************************************************************)
(* Mapping resolver: processor.DataProcessor._apply_mapping.                *)
(*                                                                          *)
(* A mapping is the dict in insertion order: a sequence of entries          *)
(* [f, custom, v].  The key of an entry is the text f when custom is FALSE  *)
(* and f + "_custom" when it is TRUE; v is the value.                       *)
(***************************************************************************)
FileKeywordKey == "_file_keyword"

\* key in mapping
HasKey(mapping, f, custom) ==
    \E i \in 1..Len(mapping) : mapping[i].f = f /\ mapping[i].custom = custom

\* mapping[key]
ValueOf(mapping, f, custom) ==
    mapping[CHOOSE i \in 1..Len(mapping) : mapping[i].f = f /\ mapping[i].custom = custom].v

\* supplier_field.split(',')
RECURSIVE SplitComma(_, _)
SplitComma(s, cur) ==
    IF s = <<>> THEN <<cur>>
    ELSE IF Head(s) = "," THEN <<cur>> \o SplitComma(Tail(s), <<>>)
    ELSE SplitComma(Tail(s), Append(cur, Head(s)))

\* [col.strip() for col in supplier_field.split(',') if col.strip()]
TagColumnsOf(supplier_field) ==
    LET parts == SplitComma(supplier_field, <<>>)
    IN  SelectSeq([i \in 1..Len(parts) |-> Strip(parts[i])], LAMBDA p : p # <<>>)

\* The column one entry of the mapping resolves to.
ResolveField(df, mapping, e) ==
    LET n == Len(df.rows)
        available == SelectSeq(TagColumnsOf(e.v), LAMBDA col : HasCol(df, col))
    IN  IF e.v # <<>> /\ HasCol(df, e.v)
        THEN [i \in 1..n |-> df.rows[i].c[e.v]]
        ELSE IF e.f = "Tags" /\ e.v # <<>> /\ "," \in Range(e.v)
        THEN IF available # <<>>
             THEN generate_shopify_tags(df, available)
             ELSE [i \in 1..n |-> EmptyStr]
        ELSE IF HasKey(mapping, e.f, TRUE) /\ ValueOf(mapping, e.f, TRUE) # <<>>
        THEN [i \in 1..n |-> Str(ValueOf(mapping, e.f, TRUE))]
        ELSE [i \in 1..n |-> EmptyStr]

\* mapped_data: the resolved fields in mapping order, each [f, col]; the
\* _file_keyword entry and the *_custom entries are skipped.
apply_mapping(df, mapping) ==
    LET entries == SelectSeq(mapping, LAMBDA e : e.f # FileKeywordKey /\ ~e.custom)
    IN  [i \in 1..Len(entries) |->
            [f |-> entries[i].f, col |-> ResolveField(df, mapping, entries[i])]]

\* pd.DataFrame(mapped_data), with the rows of df
DataFrameOf(mapped_data, df) ==
    [cols |-> [j \in 1..Len(mapped_data) |-> mapped_data[j].f],
     rows |-> [i \in 1..Len(df.rows) |->
        [idx |-> i - 1,
         c |-> [f \in {mapped_data[j].f : j \in 1..Len(mapped_data)} |->
                  mapped_data[CHOOSE j \in 1..Len(mapped_data) : mapped_data[j].f = f].col[i]]]]]

(***************************************************************************)
(* Supplier detection: file_handler.detect_supplier.                        *)
(***************************************************************************)
Auscomp == <<"a","u","s","c","o","m","p">>
Compuworld == <<"c","o","m","p","u","w","o","r","l","d">>
LeaderSystems == <<"l","e","a","d","e","r","_","s","y","s","t","e","m","s">>
Dicker == <<"d","i","c","k","e","r">>
Synnex == <<"s","y","n","n","e","x">>
Ingram == <<"i","n","g","r","a","m">>
Techdata == <<"t","e","c","h","d","a","t","a">>

\* patterns, in the dict's order: [supplier, keywords]
SupplierPatterns ==
    << [supplier |-> Auscomp,       keywords |-> <<<<"a","u","s","c","o","m","p">>>>],
       [supplier |-> Compuworld,    keywords |-> <<<<"c","o","m","p","u","w","o","r","l","d">>>>],
       [supplier |-> LeaderSystems, keywords |-> <<<<"l","e","a","d","e","r">>, <<"l","e","a","d","e","r","s","y","s","t","e","m">>>>],
       [supplier |-> Dicker,        keywords |-> <<<<"d","i","c","k","e","r">>>>],
       [supplier |-> Synnex,        keywords |-> <<<<"s","y","n","n","e","x">>>>],
       [supplier |-> Ingram,        keywords |-> <<<<"i","n","g","r","a","m">>>>],
       [supplier |-> Techdata,      keywords |-> <<<<"t","e","c","h","d","a","t","a">>>>] >>

NoSupplier == <<>>

\* A detection that compares the file name as written.
DetectCaseSensitive(filename) ==
    LET hits == {i \in 1..Len(SupplierPatterns) :
                   \E j \in 1..Len(SupplierPatterns[i].keywords) :
                       Contains(filename, SupplierPatterns[i].keywords[j])}
    IN  IF hits = {} THEN NoSupplier
        ELSE SupplierPatterns[CHOOSE i \in hits : \A j \in hits : i <= j].supplier

\* The first supplier, in pattern order, one of whose keywords occurs in the
\* lower-cased file name; NoSupplier (None) when there is none.
detect_supplier(filename) ==
    LET low == Lower(filename)
        hits == {i \in 1..Len(SupplierPatterns) :
                   \E j \in 1..Len(SupplierPatterns[i].keywords) :
                       Contains(low, SupplierPatterns[i].keywords[j])}
    IN  IF hits = {} THEN NoSupplier
        ELSE SupplierPatterns[CHOOSE i \in hits : \A j \in hits : i <= j].supplier

(***************************************************************************)
(* processor.DataProcessor._apply_transformations, _add_default_values and  *)
(* process_files.                                                           *)
(***************************************************************************)
\* A whole number as a cell (numbers are carried in hundredths).
IntCell(v) == Num(100 * v)

TransformCell(df, col, cell) ==
    CASE col = "Variant Inventory Qty" -> IntCell(extract_quantity(cell))
      [] col = "Variant Grams" -> IntCell(convert_weight_to_grams(cell))
      [] col = "Title" ->
            IF \E i \in 1..Len(df.rows) : Len(AsStr(df.rows[i].c["Title"])) > TitleMaxLength
            THEN Str(truncate_title(cell, TitleMaxLength))
            ELSE cell
      [] OTHER -> cell

apply_transformations(df) == MapCells(df, LAMBDA col, cell : TransformCell(df, col, cell))

\* The catalog defaults, in the order they are stamped.
DefaultValues ==
    << <<"Published", <<"t","r","u","e">>>>,
       <<"Option1 Name", <<"T","i","t","l","e">>>>,
       <<"Option1 Value", <<"D","e","f","a","u","l","t"," ","T","i","t","l","e">>>>,
       <<"Variant Inventory Tracker", <<"s","h","o","p","i","f","y">>>>,
       <<"Variant Inventory Policy", <<"d","e","n","y">>>>,
       <<"Variant Fulfillment Service", <<"m","a","n","u","a","l">>>>,
       <<"Variant Requires Shipping", <<"t","r","u","e">>>>,
       <<"Variant Taxable", <<"t","r","u","e">>>>,
       <<"Gift Card", <<"f","a","l","s","e">>>>,
       <<"Status", <<"a","c","t","i","v","e">>>> >>

DefaultFields == <<"Vendor">> \o [i \in 1..Len(DefaultValues) |-> DefaultValues[i][1]]

DefaultOf == [f \in {DefaultValues[i][1] : i \in 1..Len(DefaultValues)} |->
                Str(DefaultValues[CHOOSE i \in 1..Len(DefaultValues) : DefaultValues[i][1] = f][2])]

\* df['Vendor'] = supplier, then df[field] = default for every default: a
\* column the table has keeps its place and is overwritten, a new one is
\* appended.
add_default_values(df, supplier) ==
    [cols |-> df.cols \o SelectSeq(DefaultFields, LAMBDA f : ~HasCol(df, f)),
     rows |-> [i \in 1..Len(df.rows) |->
        [df.rows[i] EXCEPT !.c =
            [x \in DOMAIN df.rows[i].c \cup Range(DefaultFields) |->
                IF x = "Vendor" THEN Str(supplier)
                ELSE IF x \in DOMAIN DefaultOf THEN DefaultOf[x]
                ELSE df.rows[i].c[x]]]]]

\* What one file contributes to all_data: <<table>>, or <<>> when the
\* supplier is not detected, has no mapping, or nothing is mapped.
ProcessFile(file, mappings) ==
    LET supplier == detect_supplier(file.name)
    IN  IF supplier # NoSupplier /\ supplier \in DOMAIN mappings
        THEN LET mapped_data == apply_mapping(file.df, mappings[supplier])
             IN  IF mapped_data # <<>>
                 THEN << normalize_dataframe_types(
                           add_default_values(
                             apply_transformations(DataFrameOf(mapped_data, file.df)),
                             supplier)) >>
                 ELSE <<>>
        ELSE <<>>

RECURSIVE process_files(_, _)
process_files(files, mappings) ==
    IF files = <<>> THEN <<>>
    ELSE ProcessFile(Head(files), mappings) \o process_files(Tail(files), mappings)

(***************************************************************************)
(* Concatenation: pd.concat(frames, ignore_index=True) and                  *)
(* main.ETECDatafeedsApp._combine_dataframes.                               *)
(***************************************************************************)
\* The union of the frames' columns, in order of first appearance.
RECURSIVE UnionCols(_, _)
UnionCols(frames, acc) ==
    IF frames = <<>> THEN acc
    ELSE UnionCols(Tail(frames),
                   acc \o SelectSeq(Head(frames).cols, LAMBDA col : col \notin Range(acc)))

RECURSIVE AllRows(_)
AllRows(frames) ==
    IF frames = <<>> THEN <<>> ELSE Head(frames).rows \o AllRows(Tail(frames))

\* Rows in frame order, re-labelled 0..n-1; a column a frame lacks is NaN.
Concat(frames) ==
    LET cols == UnionCols(frames, <<>>)
        rows == AllRows(frames)
    IN  [cols |-> cols,
         rows |-> [i \in 1..Len(rows) |->
            [idx |-> i - 1,
             c |-> [col \in Range(cols) |->
                      IF col \in DOMAIN rows[i].c THEN rows[i].c[col] ELSE NaN]]]]

combine_dataframes(frames) ==
    Concat([i \in 1..Len(frames) |-> normalize_dataframe_types(frames[i])])

(***************************************************************************)
(* Sorting.  DataFrame.sort_values(col) is called without kind=, so it is   *)
(* the default quicksort, which does not promise the order of equal keys.   *)
(* The build's sort is a function of the key array: argsort_memo records    *)
(* the order it gave to each key array with equal keys seen so far, and a   *)
(* key array met again is ordered as before.                                *)
(***************************************************************************)
\* a <= b on numeric cells (numbers and infinities)
NumLE(a, b) ==
    IF a.k = "inf" THEN a.n < 0 \/ (b.k = "inf" /\ b.n > 0)
    ELSE IF b.k = "inf" THEN b.n > 0
    ELSE a.n <= b.n

\* a - b on numeric cells
NumSub(a, b) ==
    IF a.k = "num" /\ b.k = "num" THEN Num(a.n - b.n)
    ELSE IF a.k = "inf" /\ b.k = "inf" THEN (IF a.n = b.n THEN NaN ELSE a)
    ELSE IF a.k = "inf" THEN a
    ELSE Inf(-b.n)

\* The orders a sort may give to keys: the permutations that leave the keys
\* non-decreasing.
ValidArgsorts(keys) ==
    IF Len(keys) <= 1 THEN {[i \in 1..Len(keys) |-> i]}
    ELSE {p \in Permutations(1..Len(keys)) :
            \A i \in 1..(Len(keys) - 1) : NumLE(keys[p[i]], keys[p[i + 1]])}

\* The order of a stable sort: equal keys keep their input order.
StableArgsort(keys) ==
    CHOOSE p \in ValidArgsorts(keys) :
        \A i \in 1..(Len(keys) - 1) :
            keys[p[i]] = keys[p[i + 1]] => p[i] < p[i + 1]

HasTies(keys) == \E i, j \in 1..Len(keys) : i # j /\ keys[i] = keys[j]

\* The order the build's sort gives to keys, memo being what is known of it.
ArgsortOf(keys, memo) ==
    IF keys \in DOMAIN memo THEN memo[keys] ELSE StableArgsort(keys)

\* Every way to extend memo with an order for each key array of K that has
\* equal keys and is not in memo yet.
RECURSIVE SortExtensions(_, _)
SortExtensions(K, memo) ==
    IF K = {} THEN {memo}
    ELSE LET keys == CHOOSE x \in K : TRUE
             rest == SortExtensions(K \ {keys}, memo)
         IN  IF keys \in DOMAIN memo \/ ~HasTies(keys) THEN rest
             ELSE UNION {{m @@ (keys :> p) : p \in ValidArgsorts(keys)} : m \in rest}

\* rows.sort_values(col)
SortRows(rows, col, memo) ==
    LET p == ArgsortOf([i \in 1..Len(rows) |-> rows[i].c[col]], memo)
    IN  [i \in 1..Len(rows) |-> rows[p[i]]]

(***************************************************************************)
(* Text order, for the sorted group keys of groupby.                        *)
(***************************************************************************)
AsciiPrintable == <<" ","!","\"","#","$","%","&","'","(",")","*","+",",","-",".","/">>
    \o DigitChars \o <<":",";","<","=",">","?","@">> \o UpperLetters
    \o <<"[","\\","]","^","_">> \o LowerLetters \o <<"{","|","}","~">>

AsciiRanks ==
    [c \in Range(AsciiPrintable) |-> CHOOSE i \in 1..Len(AsciiPrintable) : AsciiPrintable[i] = c]

CharRank(c) == IF c \in DOMAIN AsciiRanks THEN AsciiRanks[c] ELSE 0

RECURSIVE TextLess(_, _)
TextLess(a, b) ==
    IF b = <<>> THEN FALSE
    ELSE IF a = <<>> THEN TRUE
    ELSE IF Head(a) = Head(b) THEN TextLess(Tail(a), Tail(b))
    ELSE CharRank(Head(a)) < CharRank(Head(b))

RECURSIVE SortedCells(_)
SortedCells(S) ==
    IF S = {} THEN <<>>
    ELSE LET m == CHOOSE x \in S : \A y \in S \ {x} : TextLess(AsStr(x), AsStr(y))
         IN  <<m>> \o SortedCells(S \ {m})

(***************************************************************************)
(* Merge & dedup engine: processor.DataProcessor.find_and_remove_duplicates *)
(* and _preserve_images_from_duplicates.                                    *)
(***************************************************************************)
SkuCol == "Variant SKU"
CostCol == "Cost per item"

available_image_fields ==
    <<"Image Src", "Variant Image", "Image", "Product Image", "Image URL">>

ImagePlaceholders == {<<"n","o","n","e">>, <<"n","u","l","l">>, <<"n","/","a">>}
UrlPrefixes == {<<"h","t","t","p">>, <<"h","t","t","p","s">>, <<"w","w","w",".">>, <<"f","t","p",":","/","/">>}

\* The kept row's image counts as missing.
IsBlankImage(cell) ==
    IsNa(cell) \/ Strip(AsStr(cell)) = <<>> \/ Lower(AsStr(cell)) \in ImagePlaceholders

\* A removed row's image is worth preserving.
IsValidImage(cell) ==
    /\ ~IsNa(cell)
    /\ Strip(AsStr(cell)) # <<>>
    /\ Lower(AsStr(cell)) \notin ImagePlaceholders
    /\ \/ \E p \in UrlPrefixes : StartsWith(AsStr(cell), p)
       \/ "." \in Range(AsStr(cell))

\* combined_df['Cost per item'] = to_numeric(astype(str).str.replace(',', ''))
CoerceCost(df) ==
    MapCells(df, LAMBDA col, cell :
        IF col = CostCol THEN ToNumeric(RemoveChar(AsStr(cell), ",")) ELSE cell)

\* combined_df.dropna(subset=['Cost per item'])
DropNaCost(df) == [df EXCEPT !.rows = SelectSeq(df.rows, LAMBDA r : ~IsNa(r.c[CostCol]))]

\* A grouping that leaves out the empty SKU along with the NaN keys.
GroupKeysSkippingBlank(df) ==
    SortedCells({df.rows[i].c[SkuCol] : i \in 1..Len(df.rows)} \ {NaN, EmptyStr})

\* groupby('Variant SKU'): the group keys in sorted order (NaN keys are left
\* out), and the rows of one group in table order.
GroupKeys(df) == SortedCells({df.rows[i].c[SkuCol] : i \in 1..Len(df.rows)} \ {NaN})

Group(df, key) == SelectSeq(df.rows, LAMBDA r : r.c[SkuCol] = key)

CostKeys(rows) == [i \in 1..Len(rows) |-> rows[i].c[CostCol]]

\* The first valid image among the removed rows, in their sorted order.
FirstValidImage(removed, field) ==
    LET hits == {i \in 1..Len(removed) : IsValidImage(removed[i].c[field])}
    IN  removed[CHOOSE i \in hits : \A j \in hits : i <= j].c[field]

\* The table after _preserve_images_from_duplicates: in every group of more
\* than one row, each blank image field of the kept row (the first of the
\* group sorted by cost) takes the first valid image of the removed rows.
preserve_images_from_duplicates(df, memo) ==
    LET found == SelectSeq(available_image_fields, LAMBDA f : HasCol(df, f))
        fix(r) ==
            IF IsNa(r.c[SkuCol]) THEN r
            ELSE LET sorted == SortRows(Group(df, r.c[SkuCol]), CostCol, memo)
                     removed == Tail(sorted)
                 IN  IF Len(sorted) > 1 /\ sorted[1].idx = r.idx
                     THEN [r EXCEPT !.c = [col \in DOMAIN r.c |->
                             IF /\ col \in Range(found)
                                /\ IsBlankImage(r.c[col])
                                /\ \E i \in 1..Len(removed) : IsValidImage(removed[i].c[col])
                             THEN FirstValidImage(removed, col)
                             ELSE r.c[col]]]
                     ELSE r
    IN  [df EXCEPT !.rows = [i \in 1..Len(df.rows) |-> fix(df.rows[i])]]

\* rows.drop_duplicates('Variant SKU', keep='first'): NaN equals NaN here.
DropDuplicates(rows) ==
    LET keep == {i \in 1..Len(rows) :
                   \A j \in 1..(i - 1) : rows[j].c[SkuCol] # rows[i].c[SkuCol]}
    IN  SelectSeq([i \in 1..Len(rows) |-> [i |-> i, r |-> rows[i]]],
                  LAMBDA x : x.i \in keep)

\* keep='last' in place of keep='first'
KeepLastPerSku(rows) ==
    LET keep == {i \in 1..Len(rows) :
                   \A j \in (i + 1)..Len(rows) : rows[j].c[SkuCol] # rows[i].c[SkuCol]}
    IN  [k \in 1..Cardinality(keep) |->
            rows[CHOOSE i \in keep : Cardinality({j \in keep : j <= i}) = k]]

KeepFirstPerSku(rows) ==
    LET kept == DropDuplicates(rows) IN [i \in 1..Len(kept) |-> kept[i].r]

\* row.get(col, default)
RowGet(df, row, col, default) == IF HasCol(df, col) THEN row.c[col] ELSE default

\* The removal records of one group, in sorted order after the kept row.
GroupRecords(df, key, memo) ==
    LET sorted == SortRows(Group(df, key), CostCol, memo)
        kept == sorted[1]
        removed == Tail(sorted)
    IN  [i \in 1..Len(removed) |->
            [sku |-> key,
             title |-> RowGet(df, removed[i], "Title", EmptyStr),
             vendor_removed |-> RowGet(df, removed[i], "Vendor", EmptyStr),
             cost_removed |-> RowGet(df, removed[i], CostCol, Num(0)),
             vendor_kept |-> kept.c["Vendor"],
             cost_kept |-> kept.c[CostCol],
             savings |-> NumSub(RowGet(df, removed[i], CostCol, Num(0)), kept.c[CostCol])]]

RECURSIVE RecordsOf(_, _, _)
RecordsOf(df, keys, memo) ==
    IF keys = <<>> THEN <<>>
    ELSE (IF Len(Group(df, Head(keys))) > 1 THEN GroupRecords(df, Head(keys), memo) ELSE <<>>)
         \o RecordsOf(df, Tail(keys), memo)

\* The key arrays find_and_remove_duplicates sorts: the whole table's costs
\* and the costs of every group of more than one row.
SortedKeyArrays(df) ==
    IF ~HasCol(df, SkuCol) \/ ~HasCol(df, CostCol) THEN {}
    ELSE LET w == DropNaCost(CoerceCost(df))
             keys == GroupKeys(w)
         IN  {CostKeys(w.rows)}
             \cup {CostKeys(Group(w, keys[i])) : i \in {j \in 1..Len(keys) : Len(Group(w, keys[j])) > 1}}

\* The call with the early return replaced by a failure on the missing column.
DedupNeedingColumns(df, memo) ==
    IF ~HasCol(df, SkuCol) \/ ~HasCol(df, CostCol)
    THEN [outcome |-> "raised", final_df |-> NoTable, duplicates_info |-> <<>>,
          combined_df |-> df]
    ELSE [outcome |-> "returned", final_df |-> df, duplicates_info |-> <<>>,
          combined_df |-> df]

\* The call's result: [outcome, final_df, duplicates_info, combined_df], the
\* last being the caller's table as the call leaves it.  combined_df.loc[kept_idx,
\* 'Vendor'] raises KeyError when a record is built and the table has no Vendor.
find_and_remove_duplicates(df, memo) ==
    IF ~HasCol(df, SkuCol) \/ ~HasCol(df, CostCol)
    THEN [outcome |-> "returned", final_df |-> df, duplicates_info |-> <<>>, combined_df |-> df]
    ELSE LET coerced == CoerceCost(df)
             w == preserve_images_from_duplicates(DropNaCost(coerced), memo)
             final == [w EXCEPT !.rows = KeepFirstPerSku(SortRows(w.rows, CostCol, memo))]
             keys == GroupKeys(w)
             raises == /\ ~HasCol(w, "Vendor")
                       /\ \E i \in 1..Len(keys) : Len(Group(w, keys[i])) > 1
         IN  IF raises
             THEN [outcome |-> "raised", final_df |-> NoTable, duplicates_info |-> <<>>,
                   combined_df |-> coerced]
             ELSE [outcome |-> "returned", final_df |-> final,
                   duplicates_info |-> RecordsOf(w, keys, memo), combined_df |-> coerced]

(***************************************************************************)
(* Export fix-ups: main.ETECDatafeedsApp._process_and_export_files, after   *)
(* the duplicate removal.                                                   *)
(***************************************************************************)
IsHandleChar(c) == c = "-" \/ IsDigit(c) \/ c \in LowerSet

\* Title.str.lower().str.replace(' ', '-').str.replace('[^a-z0-9-]', '')
HandleOf(cell) ==
    IF cell.k # "str" THEN NaN
    ELSE LET low == Lower(cell.s)
             dashed == [i \in 1..Len(low) |-> IF low[i] = " " THEN "-" ELSE low[i]]
         IN  Str(SelectSeq(dashed, IsHandleChar))

\* final_df[field] = "" for every template field the table lacks
RECURSIVE AddMissingFields(_, _)
AddMissingFields(df, fields) ==
    IF fields = <<>> THEN df
    ELSE AddMissingFields(
            IF Head(fields) # FileKeywordKey /\ ~HasCol(df, Head(fields))
            THEN SetCol(df, Head(fields), LAMBDA i : EmptyStr)
            ELSE df,
            Tail(fields))

\* final_df.drop(columns=[col])
DropCol(df, col) ==
    [cols |-> SelectSeq(df.cols, LAMBDA x : x # col),
     rows |-> [i \in 1..Len(df.rows) |->
        [df.rows[i] EXCEPT !.c = [x \in DOMAIN df.rows[i].c \ {col} |-> df.rows[i].c[x]]]]]

\* [outcome, final_df]: final_df['Title'] raises KeyError when the handle is to
\* be derived and the table has no Title.
export_fixups(df, fields) ==
    LET filled == AddMissingFields(df, fields)
        clean == IF HasCol(filled, FileKeywordKey) THEN DropCol(filled, FileKeywordKey) ELSE filled
        derive == \/ ~HasCol(clean, "Handle")
                  \/ \A i \in 1..Len(clean.rows) : IsNa(clean.rows[i].c["Handle"])
    IN  IF ~derive THEN [outcome |-> "returned", final_df |-> clean]
        ELSE IF ~HasCol(clean, "Title") THEN [outcome |-> "raised", final_df |-> NoTable]
        ELSE [outcome |-> "returned",
              final_df |-> SetCol(clean, "Handle", LAMBDA i : HandleOf(clean.rows[i].c["Title"]))]

(***************************************************************************)
(* Inputs of the model.                                                     *)
(***************************************************************************)
\* Raw supplier columns and cells.
RawSku == <<"c","o","d","e">>
RawCost == <<"c","o","s","t">>
RawImg == <<"i","m","g">>
RawName == <<"n","a","m","e">>

SkuTexts == {<<"X","1">>, <<"Y","2">>}
CostTexts == {<<"1","9",".","9","9">>, <<"2","5",".","5","0">>, <<"x">>}
ImageTexts == {<<>>, <<"u",".","x">>}
TitleText == <<"P","r","o"," ","1">>

RawRows ==
    {[idx |-> 0,
      c |-> (RawSku :> Str(s)) @@ (RawCost :> Str(c)) @@ (RawImg :> Str(g))
            @@ (RawName :> Str(TitleText))] :
        s \in SkuTexts, c \in CostTexts, g \in ImageTexts}

\* A table of the given rows, labelled 0..n-1.
TableOf(cols, rows) ==
    [cols |-> cols, rows |-> [i \in 1..Len(rows) |-> [rows[i] EXCEPT !.idx = i - 1]]]

RawTables(n) == {TableOf(<<RawSku, RawCost, RawImg, RawName>>, rows) : rows \in SeqOfLen(RawRows, n)}

Entry(f, v) == [f |-> f, custom |-> FALSE, v |-> v]
CustomEntry(f, v) == [f |-> f, custom |-> TRUE, v |-> v]

\* The mappings of the merge pass: every field mapped, or the SKU or the cost
\* left unmapped (a saved mapping holds no entry for an unmapped field).
FullMapping(keyword) ==
    << Entry(FileKeywordKey, keyword), Entry("Title", RawName), Entry(SkuCol, RawSku),
       Entry(CostCol, RawCost), Entry("Image Src", RawImg) >>

FileName1 == <<"A","u","s","c","o","m","p",".","c","s","v">>
FileName2 == <<"d","i","c","k","e","r","_","f","e","e","d",".","c","s","v">>

ShopifyTemplate == <<"Handle", "Title", "Vendor", SkuCol, CostCol, "Image Src">>

(***************************************************************************)
(* The merge pass: one press of "Process Files"                             *)
(* (main.ETECDatafeedsApp._process_and_export_files), step by step.         *)
(***************************************************************************)
NoResult == [outcome |-> "none", final_df |-> NoTable, duplicates_info |-> <<>>]

NoSearch == [ok |-> FALSE, df |-> NoTable]
NoProduct == [found |-> FALSE]
NoCall == [fn |-> "none"]

QuotingIdle ==
    /\ quote_df = NoTable
    /\ search_terms = <<>>
    /\ search_results = NoSearch
    /\ best_product = NoProduct

ParsersIdle == fn_in = NoCall /\ fn_out = NoCall

HarnessIdle ==
    /\ QuotingIdle /\ ParsersIdle
    /\ norm_in = NoTable /\ norm_out = NoTable
    /\ map_in = [df |-> NoTable, mapping |-> <<>>] /\ map_out = <<>>

PassStart ==
    /\ pc = "start"
    /\ all_data = <<>>
    /\ combined_df = NoTable
    /\ final_df = NoTable
    /\ duplicates_info = <<>>
    /\ outcome = "none"

\* The mappings of the two suppliers: both complete, or the SKU or the cost
\* left unmapped for the second supplier or for both.
MappingPairs ==
    LET m(k, drop) == SelectSeq(FullMapping(k), LAMBDA e : e.f \notin drop)
    IN  { (Auscomp :> m(Auscomp, d[1])) @@ (Dicker :> m(Dicker, d[2])) :
            d \in { <<{}, {}>>, <<{}, {SkuCol}>>, <<{}, {CostCol}>>,
                    <<{SkuCol}, {SkuCol}>>, <<{CostCol}, {CostCol}>> } }

\* Two supplier files with MaxRows rows at most between them (the second may
\* hold no row), and a mapping for each supplier.  The first row's SKU is
\* fixed: the two SKU texts are interchangeable.
Init ==
    /\ \E n1 \in 1..MaxRows : \E n2 \in 0..(MaxRows - n1) :
         \E t1 \in RawTables(n1) : \E t2 \in RawTables(n2) :
            /\ t1.rows[1].c[RawSku] = Str(<<"X","1">>)
            /\ uploaded_files =
                  <<[name |-> FileName1, df |-> t1], [name |-> FileName2, df |-> t2]>>
    /\ supplier_mappings \in MappingPairs
    /\ shopify_fields = ShopifyTemplate
    /\ PassStart
    /\ argsort_memo = <<>>
    /\ run = 1
    /\ first_result = NoResult
    /\ HarnessIdle

inputs == <<uploaded_files, supplier_mappings, shopify_fields>>
harness == <<norm_in, norm_out, map_in, map_out, quoting, parsers>>

\* all_data = process_files(...); an empty all_data ends the pass.
ProcessFilesStep ==
    /\ pc = "start"
    /\ all_data' = process_files(uploaded_files, supplier_mappings)
    /\ pc' = IF all_data' = <<>> THEN "done" ELSE "processed"
    /\ outcome' = IF all_data' = <<>> THEN "nodata" ELSE outcome
    /\ UNCHANGED <<inputs, harness, combined_df, final_df, duplicates_info,
                   argsort_memo, run, first_result>>

\* combined_df = self._combine_dataframes(all_data)
CombineStep ==
    /\ pc = "processed"
    /\ combined_df' = combine_dataframes(all_data)
    /\ pc' = "combined"
    /\ UNCHANGED <<inputs, harness, all_data, final_df, duplicates_info, outcome,
                   argsort_memo, run, first_result>>

\* final_df, duplicates_info = find_and_remove_duplicates(combined_df)
DedupStep ==
    /\ pc = "combined"
    /\ \E memo \in SortExtensions(SortedKeyArrays(combined_df), argsort_memo) :
         LET r == find_and_remove_duplicates(combined_df, memo)
         IN  /\ argsort_memo' = memo
             /\ combined_df' = r.combined_df
             /\ final_df' = r.final_df
             /\ duplicates_info' = r.duplicates_info
             /\ outcome' = r.outcome
             /\ pc' = IF r.outcome = "raised" THEN "done" ELSE "deduped"
    /\ UNCHANGED <<inputs, harness, all_data, run, first_result>>

\* The template's fields, the _file_keyword column, the handle.
ExportStep ==
    /\ pc = "deduped"
    /\ LET r == export_fixups(final_df, shopify_fields)
       IN  /\ final_df' = r.final_df
           /\ outcome' = r.outcome
    /\ pc' = "done"
    /\ UNCHANGED <<inputs, harness, all_data, combined_df, duplicates_info,
                   argsort_memo, run, first_result>>

Next == ProcessFilesStep \/ CombineStep \/ DedupStep \/ ExportStep

Spec == Init /\ [][Next]_vars

(***************************************************************************)
(* Properties of the duplicate removal, read in the state the call leaves:  *)
(* combined_df is the caller's table (its costs coerced, every row still    *)
(* there), final_df and duplicates_info are what the call returned.         *)
(***************************************************************************)
DedupRan ==
    /\ pc = "deduped"
    /\ HasCol(combined_df, SkuCol)
    /\ HasCol(combined_df, CostCol)

RowsOf(df) == Range(df.rows)

\* The rows of the input whose cost parsed: those the dropna leaves.
ParseableRows == {r \in RowsOf(combined_df) : ~IsNa(r.c[CostCol])}

SkusOf(rows) == {r.c[SkuCol] : r \in rows} \ {NaN}

RowsWithSku(rows, sku) == {r \in rows : r.c[SkuCol] = sku}

FinalIndexesOf(sku) == {i \in 1..Len(final_df.rows) : final_df.rows[i].c[SkuCol] = sku}

IsMinCost(cost, rows) ==
    /\ \E r \in rows : r.c[CostCol] = cost
    /\ \A r \in rows : NumLE(cost, r.c[CostCol])

\* C1 as stated: the final table holds exactly one row for every SKU value
\* occurring in the input, and that row's cost is the minimum cost among the
\* input rows sharing the SKU.
C1_OneRowPerInputSku ==
    DedupRan =>
        \A sku \in SkusOf(RowsOf(combined_df)) :
            /\ Cardinality(FinalIndexesOf(sku)) = 1
            /\ \A i \in FinalIndexesOf(sku) :
                 IsMinCost(final_df.rows[i].c[CostCol],
                           RowsWithSku(ParseableRows, sku))

\* C1 amended: the final table holds exactly one row for every SKU value
\* occurring in an input row whose cost parses and no row for any other SKU
\* value, and that row's cost is the minimum among the parseable costs of
\* the input rows sharing the SKU.
C1_OneRowPerParseableSku ==
    DedupRan =>
        /\ SkusOf(RowsOf(final_df)) = SkusOf(ParseableRows)
        /\ \A sku \in SkusOf(ParseableRows) :
            /\ Cardinality(FinalIndexesOf(sku)) = 1
            /\ \A i \in FinalIndexesOf(sku) :
                 IsMinCost(final_df.rows[i].c[CostCol],
                           RowsWithSku(ParseableRows, sku))

\* A SKU with two rows of different parseable costs was deduplicated while
\* another row of the input had no parseable cost.
C1_Witness ==
    /\ DedupRan
    /\ \E r1, r2 \in ParseableRows :
         /\ r1.c[SkuCol] = r2.c[SkuCol] /\ ~IsNa(r1.c[SkuCol])
         /\ r1.c[CostCol] # r2.c[CostCol]
    /\ ParseableRows # RowsOf(combined_df)
    /\ Len(final_df.rows) = 1

\* The input row a final row was taken from (rows keep their labels).
InputRow(idx) == CHOOSE r \in RowsOf(combined_df) : r.idx = idx

\* C2: when rows sharing a SKU tie on the lowest cost, the kept row is the
\* one that comes first in the row order of the concatenated table.
C2_FirstRowWinsTies ==
    DedupRan =>
        \A i \in 1..Len(final_df.rows) :
            LET kept == final_df.rows[i]
            IN  ~IsNa(kept.c[SkuCol]) =>
                    \A r \in RowsWithSku(ParseableRows, kept.c[SkuCol]) :
                        r.c[CostCol] = kept.c[CostCol] => kept.idx <= r.idx

\* Two rows of one SKU tied on the lowest cost, and the later one was kept.
C2_Witness ==
    /\ DedupRan
    /\ \E i \in 1..Len(final_df.rows) :
         \E r \in RowsWithSku(ParseableRows, final_df.rows[i].c[SkuCol]) :
            /\ r.c[CostCol] = final_df.rows[i].c[CostCol]
            /\ r.idx < final_df.rows[i].idx

\* The rows the call removed: rows with a parseable cost that are not in the
\* final table.
RemovedRows == {r \in ParseableRows : \A i \in 1..Len(final_df.rows) : final_df.rows[i].idx # r.idx}

\* What a removal record tells of the row it reports.
RemovedKey(sku, vendor, cost) == <<sku, vendor, cost>>

RecordKeys == {RemovedKey(duplicates_info[i].sku, duplicates_info[i].vendor_removed,
                          duplicates_info[i].cost_removed) : i \in 1..Len(duplicates_info)}

RowKey(r) == RemovedKey(r.c[SkuCol], r.c["Vendor"], r.c[CostCol])

RecordsWithKey(k) ==
    {i \in 1..Len(duplicates_info) :
        RemovedKey(duplicates_info[i].sku, duplicates_info[i].vendor_removed,
                   duplicates_info[i].cost_removed) = k}

\* The scenario of the specification: two rows of SKU X1 costing 19.99 and 25.50.
X1Scenario ==
    /\ Cardinality(ParseableRows) = 2
    /\ \A r \in ParseableRows : r.c[SkuCol] = Str(<<"X","1">>)
    /\ {r.c[CostCol] : r \in ParseableRows} = {Num(1999), Num(2550)}

\* C3: one removal record for each removed row and none besides, every
\* record with Savings = Cost (Removed) - Cost (Kept) >= 0; two rows of X1
\* costing 19.99 and 25.50 give one X1 row costing 19.99 and one record with
\* savings 5.51.
C3_OneRecordPerRemovedRow ==
    DedupRan =>
        /\ \A k \in RecordKeys \cup {RowKey(r) : r \in RemovedRows} :
             Cardinality(RecordsWithKey(k)) = Cardinality({r \in RemovedRows : RowKey(r) = k})
        /\ \A i \in 1..Len(duplicates_info) :
             /\ duplicates_info[i].savings =
                  NumSub(duplicates_info[i].cost_removed, duplicates_info[i].cost_kept)
             /\ NumLE(Num(0), duplicates_info[i].savings)
        /\ X1Scenario =>
             /\ Len(final_df.rows) = 1
             /\ final_df.rows[1].c[CostCol] = Num(1999)
             /\ Len(duplicates_info) = 1
             /\ duplicates_info[1].savings = Num(551)

\* The scenario of the specification was deduplicated.
C3_Witness == DedupRan /\ X1Scenario /\ Len(duplicates_info) = 1

\* C4: for every SKU with duplicates and every image field of the table, if
\* the kept row's image was blank and a removed duplicate of the SKU had a
\* valid image, the SKU's row in the final table has a non-blank image.
C4_BackfillReachesFinalRow ==
    DedupRan =>
        \A i \in 1..Len(final_df.rows) :
            LET kept == final_df.rows[i]
            IN  \A f \in Range(available_image_fields) \cap Range(combined_df.cols) :
                    ( /\ ~IsNa(kept.c[SkuCol])
                      /\ IsBlankImage(InputRow(kept.idx).c[f])
                      /\ \E r \in RowsWithSku(RemovedRows, kept.c[SkuCol]) :
                            IsValidImage(r.c[f]) )
                    => ~IsBlankImage(kept.c[f])

\* A kept row with a blank image took the image of a removed duplicate.
C4_Witness ==
    /\ DedupRan
    /\ \E i \in 1..Len(final_df.rows) :
         /\ IsBlankImage(InputRow(final_df.rows[i].idx).c["Image Src"])
         /\ ~IsBlankImage(final_df.rows[i].c["Image Src"])

\* The rows of the uploaded files in upload order: row i is labelled i - 1
\* in the concatenated table.
UploadedRows ==
    AllRows([i \in 1..Len(uploaded_files) |-> uploaded_files[i].df])

\* The upload a row of the concatenated table came from.
UploadOf(idx) ==
    CHOOSE i \in 1..Len(uploaded_files) :
        /\ idx < Len(AllRows([j \in 1..i |-> uploaded_files[j].df]))
        /\ idx >= Len(AllRows([j \in 1..(i - 1) |-> uploaded_files[j].df]))

MappingOfRow(idx) == supplier_mappings[detect_supplier(uploaded_files[UploadOf(idx)].name)]

\* The supplier maps the cost and the row's cost cell is no number.
HasUnparseableCost(idx) ==
    LET mapping == MappingOfRow(idx)
    IN  /\ HasKey(mapping, CostCol, FALSE)
        /\ IsNa(ToNumeric(RemoveChar(
              AsStr(UploadedRows[idx + 1].c[ValueOf(mapping, CostCol, FALSE)]), ",")))

\* C5: in a full merge pass a row whose cost cell is unparseable is dropped:
\* it is not in the final table, so it is never the kept row of its SKU.
C5_UnparseableCostDropped ==
    (pc \in {"deduped", "done"} /\ outcome = "returned" /\ HasCol(combined_df, SkuCol)
        /\ HasCol(combined_df, CostCol)) =>
        \A i \in 1..Len(final_df.rows) : ~HasUnparseableCost(final_df.rows[i].idx)

\* A pass deduplicated a table holding a row with an unparseable cost.
C5_Witness ==
    /\ DedupRan
    /\ \E idx \in 0..(Len(UploadedRows) - 1) : HasUnparseableCost(idx)
    /\ Len(final_df.rows) < Len(combined_df.rows)

\* C6: when the concatenated table lacks the SKU column or the cost column,
\* the call returns the input table, every row and cell unchanged, with an
\* empty removal list.
C6_MissingColumnsSkipDedup ==
    (pc \in {"deduped", "done"}
        /\ (~HasCol(combined_df, SkuCol) \/ ~HasCol(combined_df, CostCol))) =>
        /\ outcome = "returned"
        /\ combined_df = combine_dataframes(all_data)
        /\ duplicates_info = <<>>
        /\ pc = "deduped" => final_df = combined_df

\* The call returned on a table of several rows that lacks one of the columns.
C6_Witness ==
    /\ pc = "deduped"
    /\ ~HasCol(combined_df, SkuCol) \/ ~HasCol(combined_df, CostCol)
    /\ Len(final_df.rows) = MaxRows
    /\ final_df = combined_df

(***************************************************************************)
(* The merge pass pressed a second time on the same uploads and mappings.   *)
(* Streamlit reruns _process_and_export_files from the top; read_file seeks *)
(* each upload back to its start, and the process's sort is the same.       *)
(***************************************************************************)
ResultOfPass == [outcome |-> outcome, final_df |-> final_df, duplicates_info |-> duplicates_info]

\* A second press that meets a sort ordering equal keys afresh.
RerunForgettingSort ==
    /\ pc = "done"
    /\ run = 1
    /\ first_result' = ResultOfPass
    /\ run' = 2
    /\ argsort_memo' = <<>>
    /\ pc' = "start"
    /\ all_data' = <<>>
    /\ combined_df' = NoTable
    /\ final_df' = NoTable
    /\ duplicates_info' = <<>>
    /\ outcome' = "none"
    /\ UNCHANGED <<inputs, harness>>

RerunStep ==
    /\ pc = "done"
    /\ run = 1
    /\ first_result' = ResultOfPass
    /\ run' = 2
    /\ pc' = "start"
    /\ all_data' = <<>>
    /\ combined_df' = NoTable
    /\ final_df' = NoTable
    /\ duplicates_info' = <<>>
    /\ outcome' = "none"
    /\ UNCHANGED <<inputs, harness, argsort_memo>>

NextTwice == ProcessFilesStep \/ CombineStep \/ DedupStep \/ ExportStep \/ RerunStep

\* The uploads of the two-pass runs: those whose costs are all numbers.
InitTwice ==
    /\ Init
    /\ \A i \in 1..Len(uploaded_files) :
         \A j \in 1..Len(uploaded_files[i].df.rows) :
            ~IsNa(ToNumeric(AsStr(uploaded_files[i].df.rows[j].c[RawCost])))

SpecTwice == InitTwice /\ [][NextTwice]_vars

MaxDirectRows == 2

DirectColumns ==
    { <<SkuCol, CostCol>>, <<SkuCol, CostCol, "Vendor">>, <<SkuCol, CostCol, "Title">>,
      <<SkuCol, CostCol, "Vendor", "Title">>, <<"Vendor", "Title">> }

DirectCells(col) ==
    CASE col = SkuCol -> {Str(t) : t \in SkuTexts}
      [] col = CostCol -> {Str(<<"1","9",".","9","9">>), Num(2550), Str(<<"x">>)}
      [] col = "Vendor" -> {Str(Auscomp)}
      [] OTHER -> {Str(TitleText)}

DirectRows(cols) ==
    {[idx |-> 0, c |-> c] :
        c \in {c \in [Range(cols) -> UNION {DirectCells(col) : col \in Range(cols)}] :
                  \A col \in Range(cols) : c[col] \in DirectCells(col)}}

DirectTables ==
    UNION { UNION { {TableOf(cols, rows) : rows \in SeqOfLen(DirectRows(cols), n)} :
                    n \in 1..MaxDirectRows } :
            cols \in DirectColumns }

PriceListTemplate == <<SkuCol, CostCol, "Vendor">>

InitDirect ==
    /\ uploaded_files = <<>>
    /\ supplier_mappings = <<>>
    /\ shopify_fields \in {ShopifyTemplate, PriceListTemplate}
    /\ all_data = <<>>
    /\ combined_df \in DirectTables
    /\ pc = "combined"
    /\ final_df = NoTable
    /\ duplicates_info = <<>>
    /\ outcome = "none"
    /\ argsort_memo = <<>>
    /\ run = 1
    /\ first_result = NoResult
    /\ HarnessIdle

NextDirect == DedupStep \/ ExportStep

SpecDirect == InitDirect /\ [][NextDirect]_vars

\* C7: the duplicate removal with its report and backfill, and the handle
\* derivation after it, never end in an exception, whatever the table.
C7_NeverRaises == outcome # "raised"

\* The step ended on a table with duplicate SKUs and no Vendor column.
C7_Witness ==
    /\ pc = "done"
    /\ ~HasCol(combined_df, "Vendor")
    /\ HasCol(combined_df, SkuCol)
    /\ \E i, j \in 1..Len(combined_df.rows) :
         /\ i # j
         /\ combined_df.rows[i].c[SkuCol] = combined_df.rows[j].c[SkuCol]
         /\ ~IsNa(combined_df.rows[i].c[CostCol])
         /\ ~IsNa(combined_df.rows[j].c[CostCol])

(***************************************************************************)
(* normalize_dataframe_types called on a table of raw cells.                *)
(***************************************************************************)
PassIdle ==
    /\ QuotingIdle /\ ParsersIdle
    /\ uploaded_files = <<>>
    /\ supplier_mappings = <<>>
    /\ shopify_fields = <<>>
    /\ all_data = <<>>
    /\ combined_df = NoTable
    /\ final_df = NoTable
    /\ duplicates_info = <<>>
    /\ outcome = "none"
    /\ argsort_memo = <<>>
    /\ run = 1
    /\ first_result = NoResult

pass == <<uploaded_files, supplier_mappings, shopify_fields, all_data, combined_df,
          final_df, duplicates_info, outcome, argsort_memo, run, first_result,
          quoting, parsers>>

\* Raw cells of a numeric column: every text of MaxCellLen characters at
\* most over digits, separators, a sign and a letter, the texts read_csv
\* leaves for infinities, and the floats and nulls read_csv makes itself.
RawNumericCells ==
    {Str(t) : t \in SeqUpTo({"1", ",", "-", ".", "x"}, MaxCellLen)}
    \cup {Str(<<"i","n","f">>), Str(<<"-","i","n","f">>), NaN, Num(1999), Num(-500), Inf(1)}

RawTextCells == {Str(TitleText), Str(<<"n","a","n">>), NaN, Num(1999)}

NormTables ==
    {TableOf(<<CostCol, "Title">>,
             <<[idx |-> 0, c |-> (CostCol :> n) @@ ("Title" :> t)]>>) :
        n \in RawNumericCells, t \in RawTextCells}

InitNorm ==
    /\ pc = "norm"
    /\ norm_in \in NormTables
    /\ norm_out = NoTable
    /\ map_in = [df |-> NoTable, mapping |-> <<>>]
    /\ map_out = <<>>
    /\ PassIdle

NormalizeStep ==
    /\ pc = "norm"
    /\ norm_out' = normalize_dataframe_types(norm_in)
    /\ pc' = "normalized"
    /\ UNCHANGED <<pass, norm_in, map_in, map_out>>

NextNorm == NormalizeStep

SpecNorm == InitNorm /\ [][NextNorm]_vars

\* C9: after normalize_dataframe_types every numeric field present holds,
\* in every row, a finite number >= 0, whatever the raw cell contained.
C9_NumericFieldsFiniteNonNegative ==
    pc = "normalized" =>
        \A i \in 1..Len(norm_out.rows) :
            \A col \in numeric_columns \cap Range(norm_out.cols) :
                /\ norm_out.rows[i].c[col].k = "num"
                /\ norm_out.rows[i].c[col].n >= 0

\* A thousands-separated cost was normalized to its number.
C9_Witness ==
    /\ pc = "normalized"
    /\ norm_in.rows[1].c[CostCol] = Str(<<"1", ",", "1">>)
    /\ norm_out.rows[1].c[CostCol] = Num(1100)

(***************************************************************************)
(* _apply_mapping called on a raw table with a supplier mapping in any of   *)
(* the forms a mapping file can hold, among them the form _save_mapping     *)
(* writes.                                                                  *)
(***************************************************************************)
RawCat == <<"c","a","t">>
CustomText == <<"l","i","t">>

\* components._save_mapping: the file keyword and the entries of non-empty
\* value are kept.
save_mapping(mapping) ==
    SelectSeq(mapping, LAMBDA e : e.f = FileKeywordKey \/ e.v # <<>>)

MapTable ==
    TableOf(<<RawName, RawCat>>,
            << [idx |-> 0, c |-> (RawName :> Str(TitleText)) @@ (RawCat :> Str(<<"a","b"," ","c","d">>))],
               [idx |-> 0, c |-> (RawName :> Str(TitleText)) @@ (RawCat :> Str(<<"e","f">>))] >>)

\* The entries of one field: a column reference that resolves or not, or
\* none, each with or without a custom text.
FieldForms(f, refs) ==
    { r \o c : r \in {<<>>} \cup {<<Entry(f, v)>> : v \in refs \cup {<<>>}},
               c \in {<<>>, <<CustomEntry(f, CustomText)>>, <<CustomEntry(f, <<>>)>>} }

MapMappings ==
    LET edited == { <<Entry(FileKeywordKey, Auscomp)>> \o t \o g :
                      t \in FieldForms("Title", {RawName, <<"z","z">>}),
                      g \in FieldForms("Tags", {RawCat, <<"y","y",",","z","z">>, <<"c","a","t",",","z","z">>, <<"n","a","m","e",",","c","a","t">>}) }
    IN  edited \cup {save_mapping(m) : m \in edited}

InitMap ==
    /\ pc = "map"
    /\ map_in \in {[df |-> MapTable, mapping |-> m] : m \in MapMappings}
    /\ map_out = <<>>
    /\ norm_in = NoTable
    /\ norm_out = NoTable
    /\ PassIdle

ResolveStep ==
    /\ pc = "map"
    /\ map_out' = apply_mapping(map_in.df, map_in.mapping)
    /\ pc' = "mapped"
    /\ UNCHANGED <<pass, norm_in, norm_out, map_in>>

NextMap == ResolveStep

SpecMap == InitMap /\ [][NextMap]_vars

\* The canonical fields a mapping configures, by a reference or a custom text.
FieldsOf(mapping) == {mapping[i].f : i \in 1..Len(mapping)} \ {FileKeywordKey}

ReferenceOf(mapping, f) == IF HasKey(mapping, f, FALSE) THEN ValueOf(mapping, f, FALSE) ELSE <<>>

CustomOf(mapping, f) == IF HasKey(mapping, f, TRUE) THEN ValueOf(mapping, f, TRUE) ELSE <<>>

\* The reference names a column of the table or, for Tags, a list with a
\* column of the table in it.
Resolves(df, f, ref) ==
    /\ ref # <<>>
    /\ \/ HasCol(df, ref)
       \/ /\ f = "Tags"
          /\ "," \in Range(ref)
          /\ \E i \in 1..Len(TagColumnsOf(ref)) : HasCol(df, TagColumnsOf(ref)[i])

ResolvedColumns(f) == {map_out[j].col : j \in {k \in 1..Len(map_out) : map_out[k].f = f}}

\* C10: a field whose reference does not resolve against the table is the
\* field's non-empty custom text in every row, and the empty string in
\* every row only when no custom text is configured.
C10_UnresolvedFieldTakesCustom ==
    pc = "mapped" =>
        \A f \in FieldsOf(map_in.mapping) :
            LET custom == CustomOf(map_in.mapping, f)
                n == Len(map_in.df.rows)
            IN  ~Resolves(map_in.df, f, ReferenceOf(map_in.mapping, f)) =>
                    IF custom # <<>>
                    THEN ResolvedColumns(f) = {[i \in 1..n |-> Str(custom)]}
                    ELSE HasKey(map_in.mapping, f, FALSE) =>
                            ResolvedColumns(f) = {[i \in 1..n |-> EmptyStr]}

\* A title whose reference names no column took the custom text.
C10_Witness ==
    /\ pc = "mapped"
    /\ ReferenceOf(map_in.mapping, "Title") = <<"z", "z">>
    /\ ResolvedColumns("Title") = {[i \in 1..Len(map_in.df.rows) |-> Str(CustomText)]}

(***************************************************************************)
(* process_files on one supplier file whose mapping may map a field that    *)
(* has a catalog default, to a column or to a custom text.                  *)
(***************************************************************************)
MaxFileRows == 2

RawStatus == <<"s","t">>

StatusTexts == {<<"d","r","a","f","t">>, <<"a","c","t","i","v","e">>, <<>>}

FileRows ==
    {[idx |-> 0,
      c |-> (RawSku :> Str(s)) @@ (RawCost :> Str(<<"1","9",".","9","9">>)) @@ (RawStatus :> Str(t))
            @@ (RawName :> Str(TitleText))] :
        s \in SkuTexts, t \in StatusTexts}

FileTables ==
    UNION { {TableOf(<<RawSku, RawCost, RawStatus, RawName>>, rows) : rows \in SeqOfLen(FileRows, n)} :
            n \in 1..MaxFileRows }

\* The mappings of the file: title, SKU and cost mapped, and Status in any
\* form, as edited or as saved.
FileMappings ==
    LET base == << Entry(FileKeywordKey, Auscomp), Entry("Title", RawName),
                   Entry(SkuCol, RawSku), Entry(CostCol, RawCost) >>
        edited == {base \o s : s \in FieldForms("Status", {RawStatus, <<"z","z">>})}
    IN  edited \cup {save_mapping(m) : m \in edited}

InitFile ==
    /\ uploaded_files \in {<<[name |-> FileName1, df |-> t]>> : t \in FileTables}
    /\ supplier_mappings \in {(Auscomp :> m) : m \in FileMappings}
    /\ shopify_fields = ShopifyTemplate
    /\ PassStart
    /\ argsort_memo = <<>>
    /\ run = 1
    /\ first_result = NoResult
    /\ HarnessIdle

NextFile == ProcessFilesStep

SpecFile == InitFile /\ [][NextFile]_vars

FileProcessed == pc = "processed" /\ Len(all_data) = 1

\* The mapping maps the field to a column of the table or to a custom text.
ExplicitlyMapped(df, mapping, f) ==
    Resolves(df, f, ReferenceOf(mapping, f)) \/ CustomOf(mapping, f) # <<>>

\* The value the mapping gives the field in row i, as the normalizer leaves it.
MappedValue(df, mapping, f, i) ==
    IF Resolves(df, f, ReferenceOf(mapping, f))
    THEN NormalizeTextCell(df.rows[i].c[ReferenceOf(mapping, f)])
    ELSE Str(CustomOf(mapping, f))

\* C11: every catalog default is stamped on the resolved table, except that
\* a field the mapping explicitly maps, to a column or to a custom text,
\* keeps the mapped value in every row.
C11_DefaultsUnlessMapped ==
    FileProcessed =>
        LET df == uploaded_files[1].df
            mapping == supplier_mappings[Auscomp]
        IN  \A d \in DOMAIN DefaultOf : \A i \in 1..Len(all_data[1].rows) :
                all_data[1].rows[i].c[d] =
                    IF ExplicitlyMapped(df, mapping, d)
                    THEN MappedValue(df, mapping, d, i)
                    ELSE DefaultOf[d]

\* A file was processed whose mapping maps Status to a column holding 'draft'.
C11_Witness ==
    /\ FileProcessed
    /\ ReferenceOf(supplier_mappings[Auscomp], "Status") = RawStatus
    /\ \E i \in 1..Len(uploaded_files[1].df.rows) :
         uploaded_files[1].df.rows[i].c[RawStatus] = Str(<<"d","r","a","f","t">>)
    /\ \A d \in DOMAIN DefaultOf \ {"Status"} :
         \A i \in 1..Len(all_data[1].rows) : all_data[1].rows[i].c[d] = DefaultOf[d]

(***************************************************************************)
(* The handle of the export table.                                          *)
(***************************************************************************)
IsBlankText(cell) == IsNa(cell) \/ Strip(AsStr(cell)) = <<>>

PassReturned == pc = "done" /\ outcome = "returned"

\* The Handle of final row i as the duplicate removal returned it (NaN
\* standing for a table without the column): the removal leaves the Handle
\* of the rows it keeps as the concatenated table has it.
HandleBeforeExport(i) ==
    IF HasCol(combined_df, "Handle")
    THEN InputRow(final_df.rows[i].idx).c["Handle"]
    ELSE NaN

\* C12: when the Handle is missing or blank in every row of the table to
\* export, every row's Handle in the final export table is derived from its
\* Title: lowercased, spaces to hyphens, characters outside [a-z0-9-] removed.
C12_BlankHandleDerivedFromTitle ==
    PassReturned =>
        ( (\A i \in 1..Len(final_df.rows) : IsBlankText(HandleBeforeExport(i)))
          => \A i \in 1..Len(final_df.rows) :
                final_df.rows[i].c["Handle"] = HandleOf(final_df.rows[i].c["Title"]) )

\* A pass ended on a table of titled rows that no supplier gave a Handle.
C12_Witness ==
    /\ PassReturned
    /\ ~HasCol(combined_df, "Handle")
    /\ Len(final_df.rows) >= 2
    /\ \A i \in 1..Len(final_df.rows) : final_df.rows[i].c["Title"] = Str(TitleText)

(***************************************************************************)
(* Best price over the search results                                       *)
(* (main.ETECDatafeedsApp._find_best_price_product and the quoting tab of   *)
(* streamlit_app.py).                                                       *)
(***************************************************************************)
shopify_cost_fields == <<"Cost per item", "Variant Price">>

\* The columns of the results with a generic cost term ('cost', 'price',
\* 'wholesale', ...) in their lowercased name, as the quoting tab tests them.
generic_cost_columns == {"Cost per item", "Variant Price"}

SkippedPrices == {<<"n","a","n">>, <<"n","o","n","e">>, <<>>, <<"n","u","l","l">>, <<"0">>, <<"0",".","0">>, <<"0",".","0","0">>}

RECURSIVE RemoveSub(_, _)
\* str.replace(p, '')
RemoveSub(s, p) ==
    IF Len(s) < Len(p) THEN s
    ELSE IF SubSeq(s, 1, Len(p)) = p THEN RemoveSub(SubSeq(s, Len(p) + 1, Len(s)), p)
    ELSE <<Head(s)>> \o RemoveSub(Tail(s), p)

\* str(raw_value).replace('$', '').replace(',', '').strip()
PriceStr(cell) == Strip(RemoveChar(RemoveChar(AsStr(cell), "$"), ","))

\* The quoting tab also removes blanks and the currency codes.
TabPriceStr(cell) ==
    Strip(RemoveSub(RemoveSub(RemoveChar(RemoveChar(RemoveChar(AsStr(cell), "$"), ","), " "),
                              <<"A","U","D">>), <<"U","S","D">>))

\* float(price_str) > 0 for a cell that passed the guards; a ValueError and
\* a float nan both leave the candidate unused. The value in hundredths, 0
\* standing for "not a candidate".
PriceOf(cell, text, skip) ==
    IF IsNa(cell) \/ cell = Str(<<>>) THEN 0
    ELSE IF text \in skip THEN 0
    ELSE LET v == ToNumeric(text)
         IN  IF v.k = "num" /\ v.n > 0 THEN v.n ELSE 0

price_value(cell) == PriceOf(cell, PriceStr(cell), SkippedPrices)
tab_price_value(cell) ==
    PriceOf(cell, RemoveChar(TabPriceStr(cell), ","),
            IF Lower(TabPriceStr(cell)) \in SkippedPrices THEN {TabPriceStr(cell)} ELSE {})

NoBest == [found |-> FALSE]
BestOf(row, col, v) == [found |-> TRUE, row |-> row, cost_field |-> col, cost_value |-> v]

\* The candidates in iteration order: row by row, column by column.
CostCandidates(results, fields) ==
    LET cols == SelectSeq(results.cols, LAMBDA c : c \in fields)
        n == Len(cols)
    IN  [k \in 1..(Len(results.rows) * n) |->
            [row |-> results.rows[((k - 1) \div n) + 1], col |-> cols[((k - 1) % n) + 1]]]

RECURSIVE LowestFrom(_, _, _)
LowestFrom(cands, k, best) ==
    IF k > Len(cands) THEN best
    ELSE LET v == price_value(cands[k].row.c[cands[k].col])
             lower == v > 0 /\ (~best.found \/ v < best.cost_value)
         IN  LowestFrom(cands, k + 1,
                        IF lower THEN BestOf(cands[k].row, cands[k].col, v) ELSE best)

RECURSIVE FirstFrom(_, _)
FirstFrom(cands, k) ==
    IF k > Len(cands) THEN NoBest
    ELSE LET v == price_value(cands[k].row.c[cands[k].col])
         IN  IF v > 0 THEN BestOf(cands[k].row, cands[k].col, v)
             ELSE FirstFrom(cands, k + 1)

\* A selection that keeps the first priced candidate and compares nothing.
FirstPricedProduct(results) ==
    FirstFrom(CostCandidates(results, Range(shopify_cost_fields)), 1)

find_best_price_product(results) ==
    LowestFrom(CostCandidates(results, Range(shopify_cost_fields)), 1, NoBest)

RECURSIVE TabLowestFrom(_, _, _)
\* The quoting tab: 'Cost per item' always competes; another field competes
\* only while the product held does not come from 'Cost per item'.
TabLowestFrom(cands, k, best) ==
    IF k > Len(cands) THEN best
    ELSE LET col == cands[k].col
             v == tab_price_value(cands[k].row.c[col])
             competes == col = "Cost per item"
                         \/ ~best.found \/ best.cost_field # "Cost per item"
             lower == v > 0 /\ competes /\ (~best.found \/ v < best.cost_value)
         IN  TabLowestFrom(cands, k + 1,
                           IF lower THEN BestOf(cands[k].row, col, v) ELSE best)

quoting_tab_best_price(results) ==
    TabLowestFrom(CostCandidates(results, Range(shopify_cost_fields) \cup generic_cost_columns),
                  1, NoBest)

(***************************************************************************)
(* Best price on its own: search results as read back from the quote        *)
(* index, a column being numeric (floats and nulls) or text (with one cell  *)
(* at least that is no number).                                             *)
(***************************************************************************)
MaxResultRows == 3

NumPrices == {Num(1000), Num(800), Num(1200), Num(0), NaN}
TextPrices == {Str(<<"1","0">>), Str(<<"8">>), Str(<<"0">>), Str(<<"x">>), Str(<<"$","5">>), NaN}
OtherPrices == {Num(500), Num(1100), NaN}

ReadAsText(column) ==
    \E i \in 1..Len(column) : column[i].k = "str" /\ ToNumeric(column[i].s).k = "nan"

PriceColumns(n) ==
    SeqOfLen(NumPrices, n) \cup {col \in SeqOfLen(TextPrices, n) : ReadAsText(col)}

ResultCols == <<"Variant SKU", "Cost per item", "Variant Price", "_Supplier", "search_term">>
SupplierNames == <<<<"a","u","s","c","o","m","p">>, <<"d","i","c","k","e","r">>, <<"l","e","a","d","e","r">>>>

ResultTable(costs, prices) ==
    TableOf(ResultCols,
            [i \in 1..Len(costs) |->
                [idx |-> 0,
                 c |-> ("Variant SKU" :> Str(<<"X","1">>)) @@ ("Cost per item" :> costs[i])
                       @@ ("Variant Price" :> prices[i])
                       @@ ("_Supplier" :> Str(SupplierNames[((i - 1) % 3) + 1]))
                       @@ ("search_term" :> Str(<<"X","1">>))]])

ResultTables(n) ==
    {ResultTable(costs, prices) : costs \in PriceColumns(n), prices \in SeqOfLen(OtherPrices, n)}

InitBest ==
    /\ pc = "searched"
    /\ \E n \in 1..MaxResultRows :
          search_results \in {[ok |-> TRUE, df |-> t] : t \in ResultTables(n)}
    /\ search_terms = <<<<"X","1">>>>
    /\ quote_df = NoTable
    /\ best_product = NoProduct
    /\ ParsersIdle
    /\ norm_in = NoTable /\ norm_out = NoTable
    /\ map_in = [df |-> NoTable, mapping |-> <<>>] /\ map_out = <<>>
    /\ uploaded_files = <<>> /\ supplier_mappings = <<>> /\ shopify_fields = <<>>
    /\ all_data = <<>> /\ combined_df = NoTable /\ final_df = NoTable
    /\ duplicates_info = <<>> /\ outcome = "none" /\ argsort_memo = <<>>
    /\ run = 1 /\ first_result = NoResult

merge == <<uploaded_files, supplier_mappings, shopify_fields, all_data, combined_df,
           final_df, duplicates_info, outcome, argsort_memo, run, first_result,
           norm_in, norm_out, map_in, map_out>>

\* main._display_search_results
BestPriceStep ==
    /\ pc = "searched"
    /\ search_results.ok
    /\ best_product' = find_best_price_product(search_results.df)
    /\ pc' = "priced"
    /\ UNCHANGED <<merge, parsers, quote_df, search_terms, search_results>>

\* the quoting tab of streamlit_app.py
QuotingTabStep ==
    /\ pc = "searched"
    /\ search_results.ok
    /\ best_product' = quoting_tab_best_price(search_results.df)
    /\ pc' = "tab_priced"
    /\ UNCHANGED <<merge, parsers, quote_df, search_terms, search_results>>

NextBest == BestPriceStep \/ QuotingTabStep

SpecBest == InitBest /\ [][NextBest]_vars

\* What the claims call a usable value: a number above zero, after the
\* currency sign and the thousands separators are taken off.
IsUsableCost(cell) ==
    /\ ~IsNa(cell)
    /\ ToNumeric(PriceStr(cell)).k = "num"
    /\ ToNumeric(PriceStr(cell)).n > 0

UsableCostOf(cell) == ToNumeric(PriceStr(cell)).n

ResultRows == search_results.df.rows

UsableIn(col) == {i \in 1..Len(ResultRows) : IsUsableCost(ResultRows[i].c[col])}

Priced == pc \in {"priced", "tab_priced"}

\* C13: whenever a matched row has a usable 'Cost per item', the selected
\* row and the reported price come from the minimum 'Cost per item'; a
\* lower 'Variant Price' never displaces it.
C13_CostPerItemWins ==
    (Priced /\ UsableIn("Cost per item") # {}) =>
        /\ best_product.found
        /\ best_product.cost_field = "Cost per item"
        /\ \A i \in UsableIn("Cost per item") :
              best_product.cost_value <= UsableCostOf(ResultRows[i].c["Cost per item"])
        /\ IsUsableCost(best_product.row.c["Cost per item"])
        /\ UsableCostOf(best_product.row.c["Cost per item"]) = best_product.cost_value

\* A usable 'Cost per item' and a lower 'Variant Price' met in the results.
C13_Witness ==
    /\ Priced
    /\ \E i \in UsableIn("Cost per item"), j \in UsableIn("Variant Price") :
          UsableCostOf(ResultRows[j].c["Variant Price"])
            < UsableCostOf(ResultRows[i].c["Cost per item"])

UsableCosts ==
    {<<i, col>> \in (1..Len(ResultRows)) \X Range(shopify_cost_fields) :
        IsUsableCost(ResultRows[i].c[col])}

\* C14: the best-price selection returns a matched row holding the minimum
\* usable cost (a usable value of a cost-bearing field; blank, '0', null
\* and non-numeric values are absent, never a price of zero), with that
\* row's supplier, and returns no best price when no row has a usable cost.
C14_MinimumUsableCost ==
    pc = "priced" =>
        IF UsableCosts = {} THEN ~best_product.found
        ELSE /\ best_product.found
             /\ \A u \in UsableCosts :
                   best_product.cost_value <= UsableCostOf(ResultRows[u[1]].c[u[2]])
             /\ \E u \in UsableCosts :
                   /\ best_product.row = ResultRows[u[1]]
                   /\ best_product.cost_field = u[2]
                   /\ best_product.cost_value = UsableCostOf(ResultRows[u[1]].c[u[2]])

\* Three supplier entries with costs 10, 8 and 12: price 8, second supplier.
C14_Witness ==
    /\ pc = "priced"
    /\ Len(ResultRows) = 3
    /\ [i \in 1..3 |-> ResultRows[i].c["Cost per item"]] = <<Num(1000), Num(800), Num(1200)>>
    /\ \A i \in 1..3 : IsNa(ResultRows[i].c["Variant Price"])
    /\ best_product.found
    /\ best_product.cost_value = 800
    /\ best_product.row.c["_Supplier"] = Str(SupplierNames[2])

\* Blank, zero and non-numeric costs only: no best price.
C14_NoUsableCost ==
    /\ pc = "priced"
    /\ UsableCosts = {}
    /\ \E i \in 1..Len(ResultRows) : ResultRows[i].c["Cost per item"] = Str(<<"0">>)
    /\ \E i \in 1..Len(ResultRows) : ResultRows[i].c["Cost per item"] = Str(<<"x">>)
    /\ ~best_product.found

(***************************************************************************)
(* The quote index (manager.QuotingManager.generate_quote_data).            *)
(***************************************************************************)
SupplierCol == "_Supplier"

\* What one template field resolves to: a column of the supplier file, or a
\* scalar (the custom text or '').
QuoteField(df, mapping, shopify_col) ==
    IF HasKey(mapping, shopify_col, FALSE)
    THEN LET mapped_col == ValueOf(mapping, shopify_col, FALSE)
         IN  IF mapped_col # <<>> /\ HasCol(df, mapped_col)
             THEN [series |-> TRUE, v |-> mapped_col]
             ELSE IF HasKey(mapping, shopify_col, TRUE) /\ ValueOf(mapping, shopify_col, TRUE) # <<>>
             THEN [series |-> FALSE, v |-> ValueOf(mapping, shopify_col, TRUE)]
             ELSE [series |-> FALSE, v |-> <<>>]
    ELSE [series |-> FALSE, v |-> <<>>]

\* export_data, built column by column from an empty frame: a scalar set
\* while the frame has no row makes an empty column, the first column copied
\* from the file brings the rows in (the columns before it are filled with
\* nulls), and a scalar set afterwards is broadcast.
ExportData(df, mapping, shopify_columns) ==
    LET field == [k \in 1..Len(shopify_columns) |-> QuoteField(df, mapping, shopify_columns[k])]
        copied == {k \in 1..Len(shopify_columns) : field[k].series}
        first == CHOOSE k \in copied : \A j \in copied : k <= j
        CellOf(k, row) ==
            IF field[k].series THEN row.c[field[k].v]
            ELSE IF k < first THEN NaN
            ELSE Str(field[k].v)
    IN  [cols |-> shopify_columns,
         rows |-> IF copied = {} THEN <<>>
                  ELSE [i \in 1..Len(df.rows) |->
                          [idx |-> i - 1,
                           c |-> [col \in Range(shopify_columns) |->
                                    CellOf(CHOOSE k \in 1..Len(shopify_columns) :
                                               shopify_columns[k] = col, df.rows[i])]]]]

\* DataFrame.empty
IsEmptyFrame(df) == df.cols = <<>> \/ df.rows = <<>>

\* export_data['_Supplier'] = supplier
TagSupplier(df, supplier) ==
    [cols |-> Append(df.cols, SupplierCol),
     rows |-> [i \in 1..Len(df.rows) |->
                 [df.rows[i] EXCEPT !.c = @ @@ (SupplierCol :> Str(supplier))]]]

QuoteFile(file, mappings, shopify_columns) ==
    LET supplier == detect_supplier(file.name)
    IN  IF supplier # NoSupplier /\ supplier \in DOMAIN mappings
        THEN LET export_data == ExportData(file.df, mappings[supplier], shopify_columns)
             IN  IF ~IsEmptyFrame(export_data)
                 THEN <<TagSupplier(export_data, supplier)>>
                 ELSE <<>>
        ELSE <<>>

RECURSIVE QuoteFiles(_, _, _)
QuoteFiles(files, mappings, shopify_columns) ==
    IF files = <<>> THEN <<>>
    ELSE QuoteFile(Head(files), mappings, shopify_columns)
           \o QuoteFiles(Tail(files), mappings, shopify_columns)

\* [ok, quote_df]: pd.concat(combined_data, ignore_index=True), or a
\* failure that writes no file.
generate_quote_data(files, mappings, shopify_columns) ==
    LET combined_data == QuoteFiles(files, mappings, shopify_columns)
    IN  IF combined_data # <<>>
        THEN [ok |-> TRUE,
              quote_df |-> Concat(combined_data)]
        ELSE [ok |-> FALSE, quote_df |-> NoTable]

(***************************************************************************)
(* The index on disk: DataFrame.to_csv, then pd.read_csv at search time.    *)
(***************************************************************************)
\* The field to_csv writes for one cell: nothing for a null.
CsvField(cell) == IF IsNa(cell) THEN <<>> ELSE AsStr(cell)

\* Fields read_csv takes for nulls (its default na_values).
CsvNaTexts == {<<>>, <<"N","A">>, <<"N","/","A">>, <<"N","U","L","L">>, <<"N","a","N">>, <<"N","o","n","e">>, <<"n","/","a">>, <<"n","a","n">>, <<"n","u","l","l">>,
               <<"#","N","/","A">>, <<"<","N","A",">">>}

\* One column read back: a column all of whose fields are numbers or nulls
\* is numeric, any other is text with nulls.
ReadCsvColumn(fields) ==
    LET present == {i \in 1..Len(fields) : fields[i] \notin CsvNaTexts}
        numeric == \A i \in present : ToNumeric(fields[i]).k # "nan"
    IN  [i \in 1..Len(fields) |->
            IF i \notin present THEN NaN
            ELSE IF numeric THEN ToNumeric(fields[i])
            ELSE Str(fields[i])]

read_quote_csv(df) ==
    LET column == [col \in Range(df.cols) |->
                     ReadCsvColumn([i \in 1..Len(df.rows) |-> CsvField(df.rows[i].c[col])])]
    IN  [cols |-> df.cols,
         rows |-> [i \in 1..Len(df.rows) |->
                     [idx |-> i - 1, c |-> [col \in Range(df.cols) |-> column[col][i]]]]]

(***************************************************************************)
(* manager.QuotingManager.search_products.                                  *)
(***************************************************************************)
TermCol == "search_term"
SkippedSearchCols == {"Image Src", "Body (HTML)", "SEO Description"}

\* Series.str.contains(pat) takes pat for a regular expression. Over the
\* terms searched here (letters, digits, blanks, '.' and '(') a pattern is
\* a run of literals and of '.', which stands for any character; a pattern
\* with an unclosed '(' does not compile.
CompilesAsRegex(pat) == "(" \notin Range(pat)

RegexSearch(s, pat) ==
    \E i \in 1..(Len(s) - Len(pat) + 1) :
        \A j \in 1..Len(pat) : pat[j] = "." \/ s[i + j - 1] = pat[j]

\* df[col].dtype == 'object'
IsObjectColumn(df, col) == \E i \in 1..Len(df.rows) : df.rows[i].c[col].k = "str"

SearchedColumns(df) ==
    {col \in Range(df.cols) : col = SkuCol \/ (IsObjectColumn(df, col) /\ col \notin SkippedSearchCols)}

\* df[col].astype(str).str.upper().str.contains(search_term.upper(), na=False)
TermMask(df, row, search_term) ==
    \E col \in SearchedColumns(df) : RegexSearch(Upper(AsStr(row.c[col])), Upper(search_term))

TermMatches(df, search_term) ==
    LET hit == SelectSeq(df.rows, LAMBDA row : TermMask(df, row, search_term))
    IN  [i \in 1..Len(hit) |-> [hit[i] EXCEPT !.c = @ @@ (TermCol :> Str(search_term))]]

RECURSIVE AllMatches(_, _)
AllMatches(df, terms) ==
    IF terms = <<>> THEN <<>>
    ELSE TermMatches(df, Head(terms)) \o AllMatches(df, Tail(terms))

\* [ok, df]; an exception (a term that does not compile) and an empty
\* result both return a failure.
search_products(terms, df) ==
    LET raised == SearchedColumns(df) # {}
                  /\ \E k \in 1..Len(terms) : ~CompilesAsRegex(Upper(terms[k]))
        rows == AllMatches(df, terms)
    IN  IF raised \/ rows = <<>> THEN NoSearch
        ELSE [ok |-> TRUE, df |-> TableOf(Append(df.cols, TermCol), rows)]

(***************************************************************************)
(* The quoting tab: generate the index, search it, price the results.       *)
(***************************************************************************)
MaxQuoteRows == 2
MaxQuoteFiles == 2

QuoteTemplate == <<"Title", "Vendor", SkuCol, CostCol, "Tags">>
FileName3 == <<"m","i","s","c",".","c","s","v">>

QuoteRows ==
    {[idx |-> 0, c |-> (RawSku :> Str(s[1])) @@ (RawCost :> Num(s[2]))
                       @@ (RawName :> Str(TitleText)) @@ (RawCat :> Str(<<"a","b">>))] :
        s \in {<<<<"X","1">>, 1000>>, <<<<"X","1">>, 800>>, <<<<"Y","2">>, 1200>>}}

QuoteTables(n) ==
    {TableOf(<<RawSku, RawCost, RawName, RawCat>>, rows) : rows \in SeqOfLen(QuoteRows, n)}

QuoteUploads(MaxFiles) ==
    LET one == {<<[name |-> nm, df |-> t]>> :
                   nm \in {FileName1, FileName2, FileName3},
                   t \in UNION {QuoteTables(n) : n \in 1..MaxQuoteRows}}
        two == {<<[name |-> FileName1, df |-> t]>> \o <<[name |-> nm, df |-> u]>> :
                   t \in UNION {QuoteTables(n) : n \in 1..MaxQuoteRows},
                   nm \in {FileName1, FileName2}, u \in QuoteTables(1)}
    IN  IF MaxFiles = 1 THEN one ELSE one \cup two

\* Every field mapped; the tags from two columns; a mapping whose column
\* references the file no longer has; the SKU and the cost only.
QuoteMappingFull(keyword) ==
    << Entry(FileKeywordKey, keyword), Entry("Title", RawName), Entry("Vendor", <<>>),
       CustomEntry("Vendor", CustomText), Entry(SkuCol, RawSku), Entry(CostCol, RawCost),
       Entry("Tags", RawCat) >>
QuoteMappingTags(keyword) ==
    << Entry(FileKeywordKey, keyword), Entry(SkuCol, RawSku),
       Entry("Tags", <<"c","a","t",",","n","a","m","e">>) >>
QuoteMappingStale(keyword) ==
    << Entry(FileKeywordKey, keyword), Entry("Title", <<"z","z">>), Entry("Vendor", <<>>),
       CustomEntry("Vendor", CustomText), Entry(SkuCol, <<"z","z">>) >>
QuoteMappingSku(keyword) ==
    << Entry(FileKeywordKey, keyword), Entry(SkuCol, RawSku), Entry(CostCol, RawCost) >>

AuscompForms ==
    {(Auscomp :> m) : m \in {QuoteMappingFull(Auscomp), QuoteMappingTags(Auscomp),
                              QuoteMappingStale(Auscomp)}}
DickerForms ==
    {(Dicker :> m) : m \in {QuoteMappingFull(Dicker), QuoteMappingSku(Dicker)}}

\* The quoting tab is shown once a supplier has a mapping.
QuoteMappings ==
    {a @@ d : a \in {<<>>} \cup AuscompForms, d \in {<<>>} \cup DickerForms} \ {<<>>}

TermLists ==
    { <<<<"X","1">>>>, <<<<"x","1">>, <<"Y","2">>>>, <<<<"Y","2">>, <<"X","1">>>>,
      <<<<"X",".">>>>, <<<<"X","1">>, <<"(">>>>, <<<<"N","A","N">>>>,
      <<<<"p","r","o">>, <<"X","1">>>>, <<<<"z","z">>>> }

InitQuote ==
    /\ pc = "uploaded"
    /\ uploaded_files \in QuoteUploads(MaxQuoteFiles)
    /\ supplier_mappings \in QuoteMappings
    /\ shopify_fields = QuoteTemplate
    /\ QuotingIdle /\ ParsersIdle
    /\ norm_in = NoTable /\ norm_out = NoTable
    /\ map_in = [df |-> NoTable, mapping |-> <<>>] /\ map_out = <<>>
    /\ all_data = <<>> /\ combined_df = NoTable /\ final_df = NoTable
    /\ duplicates_info = <<>> /\ outcome = "none" /\ argsort_memo = <<>>
    /\ run = 1 /\ first_result = NoResult

\* "Generate Quote Data": a failure leaves the file on disk as it was.
GenerateQuoteStep ==
    /\ pc = "uploaded"
    /\ LET r == generate_quote_data(uploaded_files, supplier_mappings, shopify_fields)
       IN  /\ quote_df' = IF r.ok THEN r.quote_df ELSE quote_df
           /\ pc' = IF r.ok THEN "generated" ELSE "no_quote"
    /\ UNCHANGED <<merge, parsers, search_terms, search_results, best_product>>

\* "Search Products" on the index read back from disk
SearchStep ==
    /\ pc = "generated"
    /\ \E terms \in TermLists :
         /\ search_terms' = terms
         /\ search_results' = search_products(terms, read_quote_csv(quote_df))
    /\ pc' = "searched"
    /\ UNCHANGED <<merge, parsers, quote_df, best_product>>

NextQuote == GenerateQuoteStep \/ SearchStep \/ BestPriceStep \/ QuotingTabStep

SpecQuote == InitQuote /\ [][NextQuote]_vars

QuoteBuilt == pc \in {"generated", "no_quote"}

\* The uploaded files whose supplier is detected and has a mapping.
QuotedFiles ==
    {k \in 1..Len(uploaded_files) :
        /\ detect_supplier(uploaded_files[k].name) # NoSupplier
        /\ detect_supplier(uploaded_files[k].name) \in DOMAIN supplier_mappings}

RECURSIVE SumRows(_)
SumRows(K) ==
    IF K = {} THEN 0
    ELSE LET k == CHOOSE x \in K : TRUE
         IN  Len(uploaded_files[k].df.rows) + SumRows(K \ {k})

EntriesOf(supplier) ==
    {i \in 1..Len(quote_df.rows) : quote_df.rows[i].c[SupplierCol] = Str(supplier)}

\* C15: the quote index holds one entry per row of every uploaded file whose
\* supplier is detected and mapped: the total is the sum of their row counts,
\* repeated SKUs stay, and every entry carries its file's supplier.
C15_IndexKeepsEveryRow ==
    QuoteBuilt =>
        /\ Len(quote_df.rows) = SumRows(QuotedFiles)
        /\ \A s \in DOMAIN supplier_mappings :
              Cardinality(EntriesOf(s))
                = SumRows({k \in QuotedFiles : detect_supplier(uploaded_files[k].name) = s})

\* Two mapped suppliers offering the same SKU, one of them twice.
C15_Witness ==
    /\ pc = "generated"
    /\ Cardinality(QuotedFiles) = 2
    /\ SumRows(QuotedFiles) = 3
    /\ \A k \in QuotedFiles : \A i \in 1..Len(uploaded_files[k].df.rows) :
          uploaded_files[k].df.rows[i].c[RawSku] = Str(<<"X","1">>)
    /\ detect_supplier(uploaded_files[1].name) # detect_supplier(uploaded_files[2].name)

\* The fields of the template the Mapping Resolver resolves for the one
\* uploaded file, as [f, col].
ResolverFields ==
    SelectSeq(apply_mapping(uploaded_files[1].df,
                            supplier_mappings[detect_supplier(uploaded_files[1].name)]),
              LAMBDA e : e.f \in Range(shopify_fields))

OneFileQuoted == pc = "generated" /\ Len(uploaded_files) = 1

\* C16: for the same raw table and mapping the quote index holds, for every
\* canonical field, the value the Mapping Resolver gives it (copied column,
\* synthesized tags, custom literal or empty); nulls and '' both count as
\* empty, as the index on disk does not tell them apart.
C16_IndexResolvesAsResolver ==
    OneFileQuoted =>
        \A k \in 1..Len(ResolverFields) : \A i \in 1..Len(quote_df.rows) :
            CsvField(quote_df.rows[i].c[ResolverFields[k].f])
              = CsvField(ResolverFields[k].col[i])

\* A file indexed under a mapping that builds the tags from two columns.
C16_Witness ==
    /\ OneFileQuoted
    /\ \E k \in 1..Len(ResolverFields) :
          /\ ResolverFields[k].f = "Tags"
          /\ \A i \in 1..Len(quote_df.rows) : ResolverFields[k].col[i] # EmptyStr

\* The index as the search reads it.
QuoteIndex == read_quote_csv(quote_df)

\* The term occurs, letter case aside, in the text of the cell; a null has
\* no text.
Occurs(term, cell) == ~IsNa(cell) /\ Contains(Upper(AsStr(cell)), Upper(term))

RowsWithTerm(term) ==
    LET hit == SelectSeq(QuoteIndex.rows,
                         LAMBDA row : \E col \in SearchedColumns(QuoteIndex) : Occurs(term, row.c[col]))
    IN  [i \in 1..Len(hit) |-> [c |-> hit[i].c, term |-> term]]

RECURSIVE RowsWithTerms(_)
RowsWithTerms(terms) ==
    IF terms = <<>> THEN <<>>
    ELSE RowsWithTerm(Head(terms)) \o RowsWithTerms(Tail(terms))

\* The rows returned, each as its index fields and its tag.
ReturnedRows ==
    [i \in 1..Len(search_results.df.rows) |->
        [c |-> [col \in Range(QuoteIndex.cols) |-> search_results.df.rows[i].c[col]],
         term |-> search_results.df.rows[i].c[TermCol].s]]

Searched == pc \in {"searched", "priced", "tab_priced"}

\* C17: search_products returns, term by term in input order, exactly the
\* index rows in which the term occurs case-insensitively as a substring of
\* 'Variant SKU' or of a text column other than 'Image Src', 'Body (HTML)'
\* and 'SEO Description', each tagged with its term, a row matching k terms
\* appearing k times.
C17_RowsPerMatchingTerm ==
    Searched =>
        IF search_results.ok THEN ReturnedRows = RowsWithTerms(search_terms)
        ELSE RowsWithTerms(search_terms) = <<>>

\* Two terms that both occur in one index row, returned once per term.
C17_Witness ==
    /\ Searched
    /\ search_results.ok
    /\ Len(search_terms) = 2
    /\ \E i, j \in 1..Len(ReturnedRows) :
          /\ i < j
          /\ ReturnedRows[i].c = ReturnedRows[j].c
          /\ ReturnedRows[i].term = search_terms[1]
          /\ ReturnedRows[j].term = search_terms[2]

(***************************************************************************)
(* The field parsers on their own: one call of truncate_title or of         *)
(* extract_quantity on a bounded argument.                                  *)
(***************************************************************************)
MaxTitleLen == 5
MaxLength == 5
MaxQtyLen == 3

TitleArgs(MaxLen) == {Str(t) : t \in SeqUpTo({"a", "b", " "}, MaxLen)} \cup {NaN, Num(1999)}

QtyWords ==
    { <<"I","N"," ","S","T","O","C","K">>, <<"I","n"," ","S","t","o","c","k">>, <<"a","v","a","i","l","a","b","l","e">>, <<"Y","e","s">>, <<"O","U","T"," ","O","F"," ","S","T","O","C","K">>, <<"o","u","t"," ","o","f"," ","s","t","o","c","k">>,
      <<"N","o">>, <<"D","i","s","c","o","n","t","i","n","u","e","d">>, <<" ","y","e","s"," ">>, <<"I","n"," ","S","t","o","c","k"," ">>, <<" ","n","o">>, <<"n","o"," ","s","t","o","c","k">>,
      <<">","2","0">>, <<"1","2"," ","p","c","s"," ","3">>, <<"0","0","7">>, <<"a","b","c">> }

\* The longest digit string int() converts: since Python 3.11 (and the
\* security releases of 3.7 to 3.10) a longer one raises ValueError.
IntMaxStrDigits == 4300

HugeQuantity == [i \in 1..(IntMaxStrDigits + 1) |-> "7"]

\* int(match.group(1)) raises: the first run of digits of the text is
\* longer than the interpreter converts.
QuantityRaises(cell) ==
    /\ ~IsNa(cell)
    /\ cell # EmptyStr
    /\ LET q == Upper(Strip(AsStr(cell)))
       IN  /\ q \notin InStockTexts \cup OutOfStockTexts
           /\ \E start \in 1..Len(q) :
                 /\ IsDigit(q[start])
                 /\ \A j \in 1..(start - 1) : ~IsDigit(q[j])
                 /\ start + IntMaxStrDigits <= Len(q)
                 /\ \A j \in start..(start + IntMaxStrDigits) : IsDigit(q[j])

QtyArgs(MaxLen) ==
    {Str(t) : t \in QtyWords \cup {HugeQuantity} \cup SeqUpTo({"1", "2", "a", " ", "-"}, MaxLen)}
    \cup {NaN, Num(500), Num(-1250), Inf(1)}

ParserCalls(TitleLen, QtyLen) ==
    {[fn |-> "truncate_title", arg |-> a, max_length |-> m] :
        a \in TitleArgs(TitleLen), m \in 0..MaxLength}
    \cup {[fn |-> "extract_quantity", arg |-> a, max_length |-> 0] : a \in QtyArgs(QtyLen)}

InitParse ==
    /\ pc = "call"
    /\ fn_in \in ParserCalls(MaxTitleLen, MaxQtyLen)
    /\ fn_out = NoCall
    /\ QuotingIdle
    /\ norm_in = NoTable /\ norm_out = NoTable
    /\ map_in = [df |-> NoTable, mapping |-> <<>>] /\ map_out = <<>>
    /\ uploaded_files = <<>> /\ supplier_mappings = <<>> /\ shopify_fields = <<>>
    /\ all_data = <<>> /\ combined_df = NoTable /\ final_df = NoTable
    /\ duplicates_info = <<>> /\ outcome = "none" /\ argsort_memo = <<>>
    /\ run = 1 /\ first_result = NoResult

TruncateStep ==
    /\ pc = "call"
    /\ fn_in.fn = "truncate_title"
    /\ fn_out' = [fn |-> "truncate_title", v |-> truncate_title(fn_in.arg, fn_in.max_length)]
    /\ pc' = "returned"
    /\ UNCHANGED <<merge, quoting, fn_in>>

QuantityStep ==
    /\ pc = "call"
    /\ fn_in.fn = "extract_quantity"
    /\ fn_out' = IF QuantityRaises(fn_in.arg)
                  THEN [fn |-> "extract_quantity", raised |-> TRUE, v |-> 0]
                  ELSE [fn |-> "extract_quantity", raised |-> FALSE,
                        v |-> extract_quantity(fn_in.arg)]
    /\ pc' = "returned"
    /\ UNCHANGED <<merge, quoting, fn_in>>

NextParse == TruncateStep \/ QuantityStep

SpecParse == InitParse /\ [][NextParse]_vars

Truncated == pc = "returned" /\ fn_in.fn = "truncate_title"

\* C18: truncate_title returns a text of length <= max_len for every input
\* and every max_len >= 0, also for max_len 0, 1 and 2, where the ellipsis
\* alone would overflow.
C18_LengthWithinMaxLen ==
    Truncated => Len(fn_out.v) <= fn_in.max_length

\* A title longer than a max_len below three was truncated.
C18_Witness ==
    /\ Truncated
    /\ fn_in.max_length \in {0, 1, 2}
    /\ fn_in.arg.k = "str"
    /\ Len(Strip(fn_in.arg.s)) > fn_in.max_length
    /\ Len(fn_out.v) = fn_in.max_length

\* The first n characters of s (none for n <= 0).
FirstChars(s, n) == SubSeq(s, 1, IF n < 0 THEN 0 ELSE IF n < Len(s) THEN n ELSE Len(s))

Ellipsis == <<".", ".", ".">>

Counted == pc = "returned" /\ fn_in.fn = "extract_quantity"

\* The quantity the claim gives a text: the stock words first, then digits.
QuantityOfText(t) ==
    IF Upper(t) \in InStockTexts THEN InStockQty
    ELSE IF Upper(t) \in OutOfStockTexts THEN 0
    ELSE IF \E i \in 1..Len(t) : IsDigit(t[i]) THEN DigitsVal(FirstDigitRun(t))
    ELSE 0

\* C20, as stated: extract_quantity returns 999 for 'IN STOCK', 'AVAILABLE'
\* or 'YES' and 0 for 'OUT OF STOCK', 'NO' or 'DISCONTINUED' (letter case
\* aside), otherwise the value of the first run of digits of the input, 0
\* when the input is absent, empty or without a digit; it never raises and
\* never returns a negative number.
C20_QuantityOfInput ==
    Counted =>
        /\ ~fn_out.raised
        /\ fn_out.v \in Nat
        /\ fn_out.v = IF IsNa(fn_in.arg) THEN 0 ELSE QuantityOfText(AsStr(fn_in.arg))

\* The same on the input without its surrounding blanks (a stock word with
\* blanks around it is still a stock word), for the calls that return.
QuantityOfStrippedInput ==
    (Counted /\ ~fn_out.raised) =>
        /\ fn_out.v \in Nat
        /\ fn_out.v = IF IsNa(fn_in.arg) THEN 0 ELSE QuantityOfText(Strip(AsStr(fn_in.arg)))

\* A run of digits longer than int() converts: the call raised.
C20_Witness ==
    /\ Counted
    /\ fn_in.arg = Str(HugeQuantity)
    /\ fn_out.raised

\* 'In Stock' gave 999.
C20_InStock ==
    /\ Counted
    /\ fn_in.arg = Str(<<"I","n"," ","S","t","o","c","k">>)
    /\ ~fn_out.raised
    /\ fn_out.v = InStockQty

(***************************************************************************)
(* convert_weight_to_grams on its own.                                      *)
(***************************************************************************)
MaxWeightLen == 4

\* The decimal digits a float can carry before the point: a weight whose
\* thousandfold exceeds the largest float is infinite, and round() of an
\* infinity raises OverflowError, which the function does not catch.
FloatMaxDigits == 306

\* re.sub(r"[^\d.]", "", str(weight_str).strip())
CleanWeight(cell) == KeepDigitsAndDots(Strip(AsStr(cell)))

\* The digits before the point, leading zeros aside.
SignificantIntDigits(clean) ==
    LET dots == {i \in 1..Len(clean) : clean[i] = "."}
        n == IF dots = {} THEN Len(clean) ELSE (CHOOSE i \in dots : TRUE) - 1
        nonzero == {i \in 1..n : clean[i] # "0"}
    IN  IF nonzero = {} THEN 0
        ELSE n + 1 - (CHOOSE i \in nonzero : \A j \in nonzero : i <= j)

\* int(round(float(clean) * 1000)) raises OverflowError.
WeightOverflows(cell) ==
    /\ ~(IsNa(cell) \/ cell = EmptyStr)
    /\ CleanWeight(cell) # <<>>
    /\ Cardinality({i \in 1..Len(CleanWeight(cell)) : CleanWeight(cell)[i] = "."}) <= 1
    /\ SignificantIntDigits(CleanWeight(cell)) > FloatMaxDigits

\* The fraction reaches exactly half a gram: the fourth fraction digit is 5
\* and nothing but zeros follows. The binary value of the product then
\* decides between the two neighbours.
IsHalfGram(clean) ==
    LET dots == {i \in 1..Len(clean) : clean[i] = "."}
    IN  /\ Cardinality(dots) = 1
        /\ LET p == CHOOSE i \in dots : TRUE
           IN  /\ Len(clean) >= p + 4
               /\ clean[p + 4] = "5"
               /\ \A i \in (p + 5)..Len(clean) : clean[i] = "0"

\* The values the call can return when it returns.
WeightOutcomes(cell) ==
    LET g == convert_weight_to_grams(cell)
    IN  IF ~(IsNa(cell) \/ cell = EmptyStr) /\ IsDecimal(CleanWeight(cell))
           /\ IsHalfGram(CleanWeight(cell))
        THEN {g - 1, g}
        ELSE {g}

WeightWords ==
    { <<"1",".","2","5">>, <<"0",".","5">>, <<"a","b","c">>, <<"1",".","2",".","3">>, <<"1",".","5","k","g">>, <<" ","2"," ">>, <<"-","2">>, <<"1",",","2","5","0">>,
      <<"1",".","2","5","0","4">>, <<"1",".","2","5","0","6">>, <<"1",".","2","5","0","4","9">>, <<".","0","0","0","5">>, <<"0",".","0","0","1","5">>, <<"1",".","0","0","0","5">> }

\* A run of nines no float holds.
HugeWeight == [i \in 1..(FloatMaxDigits + 3) |-> "9"]

WeightArgs(MaxLen) ==
    {Str(t) : t \in WeightWords \cup {HugeWeight} \cup SeqUpTo({"1", "5", ".", "k"}, MaxLen)}
    \cup {NaN, Num(150), Inf(1)}

InitWeight ==
    /\ pc = "call"
    /\ fn_in \in {[fn |-> "convert_weight_to_grams", arg |-> a, max_length |-> 0] :
                     a \in WeightArgs(MaxWeightLen)}
    /\ fn_out = NoCall
    /\ QuotingIdle
    /\ norm_in = NoTable /\ norm_out = NoTable
    /\ map_in = [df |-> NoTable, mapping |-> <<>>] /\ map_out = <<>>
    /\ uploaded_files = <<>> /\ supplier_mappings = <<>> /\ shopify_fields = <<>>
    /\ all_data = <<>> /\ combined_df = NoTable /\ final_df = NoTable
    /\ duplicates_info = <<>> /\ outcome = "none" /\ argsort_memo = <<>>
    /\ run = 1 /\ first_result = NoResult

WeightStep ==
    /\ pc = "call"
    /\ fn_in.fn = "convert_weight_to_grams"
    /\ IF WeightOverflows(fn_in.arg)
       THEN fn_out' = [fn |-> "convert_weight_to_grams", raised |-> TRUE, v |-> 0]
       ELSE \E g \in WeightOutcomes(fn_in.arg) :
               fn_out' = [fn |-> "convert_weight_to_grams", raised |-> FALSE, v |-> g]
    /\ pc' = "returned"
    /\ UNCHANGED <<merge, quoting, fn_in>>

NextWeight == WeightStep

SpecWeight == InitWeight /\ [][NextWeight]_vars

Weighed == pc = "returned" /\ fn_in.fn = "convert_weight_to_grams"

\* The kilograms of a cleaned text in hundred-thousandths (five fraction
\* digits are carried; the bounded inputs have no more).
MilliCentiKilos(clean) ==
    LET dots == {i \in 1..Len(clean) : clean[i] = "."}
        p == IF dots = {} THEN Len(clean) + 1 ELSE CHOOSE i \in dots : TRUE
        d(i) == IF p + i <= Len(clean) THEN DigitVal(clean[p + i]) ELSE 0
    IN  100000 * DigitsVal(SubSeq(clean, 1, p - 1))
          + 10000 * d(1) + 1000 * d(2) + 100 * d(3) + 10 * d(4) + d(5)

\* C21: convert_weight_to_grams keeps the digits and decimal points of its
\* input, reads them as kilograms and returns the thousandfold rounded to
\* the nearest integer; an empty, absent or unparseable input gives 0; it
\* never raises.
C21_GramsOfKilograms ==
    Weighed =>
        /\ ~fn_out.raised
        /\ LET clean == KeepDigitsAndDots(AsStr(fn_in.arg))
           IN  IF IsNa(fn_in.arg) \/ ~IsDecimal(clean) THEN fn_out.v = 0
               ELSE /\ 100 * fn_out.v - MilliCentiKilos(clean) <= 50
                    /\ MilliCentiKilos(clean) - 100 * fn_out.v <= 50

\* '1.25' gave 1250.
C21_Witness ==
    /\ Weighed
    /\ fn_in.arg = Str(<<"1",".","2","5">>)
    /\ fn_out = [fn |-> "convert_weight_to_grams", raised |-> FALSE, v |-> 1250]

(***************************************************************************)
(* generate_shopify_tags on its own: one row, two source columns.           *)
(***************************************************************************)
MaxTagLen == 3

RawBrand == <<"b","r","a","n","d">>

TagWords == { <<"A","B"," ","a","b">>, <<"a",".","b",";","A","B">>, <<"a","b","/","c","d"," ","a","b">>, <<"A","b","-","c","_","d">> }
TagTexts(MaxLen) == TagWords \cup SeqUpTo({"A", "a", "b", ",", " ", "."}, MaxLen)
BrandCells == {Str(<<"a","b">>), Str(<<"A","B"," ","c","d">>), Str(<<"x">>), Str(<<"a",".","b",",","A","B">>), EmptyStr, NaN}

TagColumnLists == { <<RawCat, RawBrand>>, <<RawBrand, RawCat>>, <<RawCat>>, <<RawCat, <<"z","z">>>> }

TagCalls(MaxLen) ==
    {[fn |-> "generate_shopify_tags",
      df |-> TableOf(<<RawCat, RawBrand>>,
                     <<[idx |-> 0, c |-> (RawCat :> Str(t)) @@ (RawBrand :> b)]>>),
      tag_columns |-> cols] :
        t \in TagTexts(MaxLen), b \in BrandCells, cols \in TagColumnLists}

InitTags ==
    /\ pc = "call"
    /\ fn_in \in TagCalls(MaxTagLen)
    /\ fn_out = NoCall
    /\ QuotingIdle
    /\ norm_in = NoTable /\ norm_out = NoTable
    /\ map_in = [df |-> NoTable, mapping |-> <<>>] /\ map_out = <<>>
    /\ uploaded_files = <<>> /\ supplier_mappings = <<>> /\ shopify_fields = <<>>
    /\ all_data = <<>> /\ combined_df = NoTable /\ final_df = NoTable
    /\ duplicates_info = <<>> /\ outcome = "none" /\ argsort_memo = <<>>
    /\ run = 1 /\ first_result = NoResult

TagsStep ==
    /\ pc = "call"
    /\ fn_in.fn = "generate_shopify_tags"
    /\ fn_out' = [fn |-> "generate_shopify_tags",
                  v |-> generate_shopify_tags(fn_in.df, fn_in.tag_columns)]
    /\ pc' = "returned"
    /\ UNCHANGED <<merge, quoting, fn_in>>

NextTags == TagsStep

SpecTags == InitTags /\ [][NextTags]_vars

Tagged == pc = "returned" /\ fn_in.fn = "generate_shopify_tags"

\* The tokens of a tag string: the pieces between ', '.
TokensOf(s) ==
    IF s = <<>> THEN <<>>
    ELSE LET pieces == SplitComma(s, <<>>)
         IN  [i \in 1..Len(pieces) |->
                IF i > 1 /\ pieces[i] # <<>> /\ Head(pieces[i]) = " "
                THEN Tail(pieces[i]) ELSE pieces[i]]

\* The elements of a list at their first occurrence, in order.
FirstSeen(r) == SelectSeq([i \in 1..Len(r) |-> [t |-> r[i], first |-> \A j \in 1..(i - 1) : r[j] # r[i]]],
                          LAMBDA e : e.first)

\* C22: the tag string of a row holds no token twice, every token is
\* lowercase and longer than one character, the tokens stand in first-seen
\* order over the source columns as listed, and the string is empty when no
\* token survives.
C22_TagsUniqueLowercaseOrdered ==
    Tagged =>
        \A i \in 1..Len(fn_out.v) :
            LET tokens == TokensOf(fn_out.v[i].s)
                scanned == FirstSeen(RowTags(fn_in.df, fn_in.df.rows[i], fn_in.tag_columns))
            IN  /\ \A a, b \in 1..Len(tokens) : a # b => tokens[a] # tokens[b]
                /\ \A a \in 1..Len(tokens) : tokens[a] = Lower(tokens[a]) /\ Len(tokens[a]) > 1
                /\ tokens = [a \in 1..Len(scanned) |-> scanned[a].t]
                /\ (scanned = <<>> => fn_out.v[i] = EmptyStr)

\* A token met in both columns, in different letter case, kept once.
C22_Witness ==
    /\ Tagged
    /\ fn_in.tag_columns = <<RawCat, RawBrand>>
    /\ fn_in.df.rows[1].c[RawCat] = Str(<<"A","B"," ","a","b">>)
    /\ fn_in.df.rows[1].c[RawBrand] = Str(<<"A","B"," ","c","d">>)
    /\ fn_out.v[1] = Str(<<"a","b",","," ","c","d">>)

\* Nothing but single characters and separators: the empty string.
C22_NoTokenSurvives ==
    /\ Tagged
    /\ fn_in.df.rows[1].c[RawCat] = Str(<<"a",",","b">>)
    /\ fn_in.df.rows[1].c[RawBrand] = Str(<<"x">>)
    /\ fn_out.v[1] = EmptyStr

(***************************************************************************)
(* Mapping form: components.MappingTab._render_mapping_form,                *)
(* _handle_mapping_type and _save_mapping.  Each rerun of the tab builds    *)
(* the mapping from the saved one and the widgets' values; the save button  *)
(* stores its cleaned form.                                                 *)
(***************************************************************************)
\* mapping[key] = v: an existing key keeps its place, a new one goes last.
SetKey(mapping, f, custom, v) ==
    IF HasKey(mapping, f, custom)
    THEN [i \in 1..Len(mapping) |->
            IF mapping[i].f = f /\ mapping[i].custom = custom
            THEN [mapping[i] EXCEPT !.v = v] ELSE mapping[i]]
    ELSE Append(mapping, [f |-> f, custom |-> custom, v |-> v])

\* if key in mapping: del mapping[key]
DelKey(mapping, f, custom) ==
    SelectSeq(mapping, LAMBDA e : ~(e.f = f /\ e.custom = custom))

\* ','.join(selected_columns)
RECURSIVE JoinColumns(_)
JoinColumns(cols) ==
    IF cols = <<>> THEN <<>>
    ELSE IF Len(cols) = 1 THEN cols[1]
    ELSE cols[1] \o <<",">> \o JoinColumns(Tail(cols))

\* A form that sets the chosen side of a field and leaves the other side as
\* it was.
HandleKeepingOtherSide(mapping, field, widget) ==
    IF widget.type = "column"
    THEN SetKey(mapping, field, FALSE,
                IF field = "Tags" THEN JoinColumns(widget.selected) ELSE widget.column)
    ELSE IF widget.type = "custom"
    THEN SetKey(mapping, field, TRUE, widget.text)
    ELSE SetKey(mapping, field, FALSE, <<>>)

\* widget: the radio's choice (type) and the values of the select box
\* (column), the multiselect (selected) and the text input (text).
handle_mapping_type(mapping, field, widget) ==
    IF widget.type = "column"
    THEN DelKey(SetKey(mapping, field, FALSE,
                       IF field = "Tags" THEN JoinColumns(widget.selected) ELSE widget.column),
                field, TRUE)
    ELSE IF widget.type = "custom"
    THEN SetKey(SetKey(mapping, field, TRUE, widget.text), field, FALSE, <<>>)
    ELSE DelKey(SetKey(mapping, field, FALSE, <<>>), field, TRUE)

RECURSIVE HandleFields(_, _, _)
HandleFields(mapping, fields, widgets) ==
    IF fields = <<>> THEN mapping
    ELSE HandleFields(IF Head(fields) = FileKeywordKey THEN mapping
                      ELSE handle_mapping_type(mapping, Head(fields), widgets[Head(fields)]),
                      Tail(fields), widgets)

render_mapping_form(fields, existing, keyword, widgets) ==
    HandleFields(SetKey(existing, FileKeywordKey, FALSE, keyword), fields, widgets)

\* The columns of the supplier file behind the form; the select box offers
\* the empty option first.
FormColumns == <<RawName, RawCat>>
supplier_columns == <<<<>>>> \o FormColumns

FormTemplates == { <<"Title", "Tags">>, <<"Tags", "Title">>, <<"Title">>, <<"Tags">> }

ColumnWidgets(f) ==
    IF f = "Tags"
    THEN {[type |-> "column", column |-> <<>>, selected |-> s, text |-> <<>>] :
             s \in {<<>>, <<RawName>>, <<RawCat>>, <<RawName, RawCat>>, <<RawCat, RawName>>}}
    ELSE {[type |-> "column", column |-> supplier_columns[i], selected |-> <<>>, text |-> <<>>] :
             i \in 1..Len(supplier_columns)}

Widgets(f) ==
    ColumnWidgets(f)
    \cup {[type |-> "custom", column |-> <<>>, selected |-> <<>>, text |-> t] : t \in {<<>>, CustomText}}
    \cup {[type |-> "empty", column |-> <<>>, selected |-> <<>>, text |-> <<>>]}

FormFields == {"Title", "Tags"}

InitForm ==
    /\ pc = "mapping"
    /\ supplier_mappings = <<>>
    /\ shopify_fields \in FormTemplates
    /\ fn_in = NoCall /\ fn_out = NoCall
    /\ QuotingIdle
    /\ norm_in = NoTable /\ norm_out = NoTable
    /\ map_in = [df |-> NoTable, mapping |-> <<>>] /\ map_out = <<>>
    /\ uploaded_files = <<>>
    /\ all_data = <<>> /\ combined_df = NoTable /\ final_df = NoTable
    /\ duplicates_info = <<>> /\ outcome = "none" /\ argsort_memo = <<>>
    /\ run = 1 /\ first_result = NoResult

\* The form is filled in and the save button pressed.
SaveMappingStep ==
    /\ pc = "mapping"
    /\ \E widgets \in [FormFields -> UNION {Widgets(f) : f \in FormFields}] :
          /\ \A f \in FormFields : widgets[f] \in Widgets(f)
          /\ LET existing == IF Auscomp \in DOMAIN supplier_mappings
                             THEN supplier_mappings[Auscomp] ELSE <<>>
                 mapping == render_mapping_form(shopify_fields, existing, Auscomp, widgets)
             IN  /\ supplier_mappings' = (Auscomp :> save_mapping(mapping))
                 /\ fn_in' = [fn |-> "save_mapping", existing |-> existing, widgets |-> widgets]
    /\ UNCHANGED <<pc, uploaded_files, shopify_fields, all_data, combined_df, final_df,
                   duplicates_info, outcome, argsort_memo, run, first_result,
                   norm_in, norm_out, map_in, map_out, quoting, fn_out>>

\* Another Shopify template is uploaded.
TemplateStep ==
    /\ pc = "mapping"
    /\ shopify_fields' \in FormTemplates \ {shopify_fields}
    /\ UNCHANGED <<pc, uploaded_files, supplier_mappings, all_data, combined_df, final_df,
                   duplicates_info, outcome, argsort_memo, run, first_result,
                   norm_in, norm_out, map_in, map_out, quoting, parsers>>

NextForm == SaveMappingStep \/ TemplateStep

SpecForm == InitForm /\ [][NextForm]_vars

Saved == pc = "mapping" /\ fn_in # NoCall

\* C23: after any sequence of form edits and a save, no field of the saved
\* mapping has both a non-empty column or tag-list reference and a non-empty
\* custom value.
C23_ReferenceOrCustomNotBoth ==
    \A s \in DOMAIN supplier_mappings :
        \A f \in FieldsOf(supplier_mappings[s]) :
            ~(ReferenceOf(supplier_mappings[s], f) # <<>> /\ CustomOf(supplier_mappings[s], f) # <<>>)

\* A field saved with a column reference is switched to a custom text (and
\* a tag field with a custom text to a column list) and saved again.
C23_Witness ==
    /\ Saved
    /\ ReferenceOf(fn_in.existing, "Title") = RawName
    /\ CustomOf(fn_in.existing, "Tags") = CustomText
    /\ fn_in.widgets["Title"].type = "custom"
    /\ fn_in.widgets["Tags"].type = "column"
    /\ shopify_fields = <<"Title", "Tags">>
    /\ CustomOf(supplier_mappings[Auscomp], "Title") = CustomText
    /\ ReferenceOf(supplier_mappings[Auscomp], "Title") = <<>>
    /\ ReferenceOf(supplier_mappings[Auscomp], "Tags") = JoinColumns(<<RawName, RawCat>>)
    /\ CustomOf(supplier_mappings[Auscomp], "Tags") = <<>>

(***************************************************************************)
(* process_files over file names of any letter case: one or two files, and  *)
(* mappings for some of the suppliers.                                       *)
(***************************************************************************)
DetectNames ==
    { <<"a","u","s","c","o","m","p","_","d","a","t","a","f","e","e","d",".","c","s","v">>, <<"A","U","S","C","O","M","P",".","C","S","V">>, <<"A","u","s","C","o","m","p","-","D","i","c","k","e","r",".","c","s","v">>, <<"d","i","c","k","e","r","_","a","u","s","c","o","m","p",".","c","s","v">>,
      <<"L","e","a","d","e","r",".","x","l","s","x">>, <<"L","e","a","d","e","r","S","y","s","t","e","m","s","_","S","y","n","n","e","x",".","c","s","v">>, <<"I","N","G","R","A","M"," ","t","e","c","h","d","a","t","a",".","c","s","v">>, <<"c","o","m","p","u","w","o","r","l","d","_","p","r","o","d","u","c","t","s",".","x","l","s","x">>,
      <<"u","n","k","n","o","w","n","_","f","i","l","e",".","c","s","v">>, <<"a","u","s"," ","c","o","m","p",".","c","s","v">>, <<"d","i","c","k",".","c","s","v">>, <<"D","i","c","k","e","r",".","c","s","v">>, <<>> }

DetectTable(n) ==
    TableOf(<<RawSku, RawCost, RawImg, RawName>>,
            [i \in 1..n |->
                [idx |-> 0,
                 c |-> (RawSku :> Str(<<"X","1">>)) @@ (RawCost :> Str(<<"1","9",".","9","9">>))
                       @@ (RawImg :> EmptyStr) @@ (RawName :> Str(TitleText))]])

DetectUploads ==
    {<<[name |-> a, df |-> DetectTable(1)]>> : a \in DetectNames}
    \cup {<<[name |-> a, df |-> DetectTable(1)], [name |-> b, df |-> DetectTable(2)]>> :
            a \in DetectNames, b \in DetectNames}

DetectMappings ==
    { <<>>,
      (Auscomp :> FullMapping(Auscomp)),
      (Dicker :> FullMapping(Dicker)),
      (Auscomp :> FullMapping(Auscomp)) @@ (Dicker :> FullMapping(Dicker)),
      (LeaderSystems :> FullMapping(LeaderSystems)) @@ (Synnex :> FullMapping(Synnex)),
      (Ingram :> FullMapping(Ingram)) @@ (Techdata :> FullMapping(Techdata))
         @@ (Compuworld :> FullMapping(Compuworld)) }

InitDetect ==
    /\ uploaded_files \in DetectUploads
    /\ supplier_mappings \in DetectMappings
    /\ shopify_fields = ShopifyTemplate
    /\ PassStart
    /\ argsort_memo = <<>>
    /\ run = 1
    /\ first_result = NoResult
    /\ HarnessIdle

NextDetect == ProcessFilesStep

SpecDetect == InitDetect /\ [][NextDetect]_vars

FilesProcessed == pc \in {"processed", "done"}

\* The suppliers (by place in the pattern order) one of whose keywords
\* occurs in the name, letter case aside.
SuppliersIn(name) ==
    {k \in 1..Len(SupplierPatterns) :
        \E j \in 1..Len(SupplierPatterns[k].keywords) :
            Contains(Upper(name), Upper(SupplierPatterns[k].keywords[j]))}

FirstSupplierIn(name) ==
    IF SuppliersIn(name) = {} THEN NoSupplier
    ELSE SupplierPatterns[CHOOSE k \in SuppliersIn(name) : \A j \in SuppliersIn(name) : k <= j].supplier

\* The files that contribute: supplier detected and with a mapping.
ContributingFiles ==
    SelectSeq(uploaded_files,
              LAMBDA file : FirstSupplierIn(file.name) # NoSupplier
                            /\ FirstSupplierIn(file.name) \in DOMAIN supplier_mappings)

C24_NoMapping ==
    /\ FilesProcessed
    /\ Len(uploaded_files) = 1
    /\ detect_supplier(uploaded_files[1].name) = Dicker
    /\ DOMAIN supplier_mappings = {Auscomp}
    /\ all_data = <<>>

\* The Tags reference is a comma-separated list of columns (and not itself
\* the name of a column).
TagListOf(df, mapping) ==
    LET ref == ReferenceOf(mapping, "Tags")
    IN  IF HasKey(mapping, "Tags", FALSE) /\ "," \in Range(ref) /\ ~HasCol(df, ref)
        THEN TagColumnsOf(ref) ELSE <<>>

AllListed(df, cols) == \A i \in 1..Len(cols) : HasCol(df, cols[i])

\* C25: Tags is synthesized from a comma-separated list only when every
\* listed column exists; when one is absent no tags are generated from the
\* others and the field is its custom text or, without one, ''.
C25_TagsOnlyWhenAllColumnsExist ==
    pc = "mapped" =>
        LET df == map_in.df
            cols == TagListOf(df, map_in.mapping)
            custom == CustomOf(map_in.mapping, "Tags")
            n == Len(df.rows)
        IN  cols # <<>> =>
                IF AllListed(df, cols)
                THEN ResolvedColumns("Tags") = {generate_shopify_tags(df, cols)}
                ELSE ResolvedColumns("Tags") =
                        {[i \in 1..n |-> IF custom # <<>> THEN Str(custom) ELSE EmptyStr]}

\* A list with one column of the table and one that is absent: the tags of
\* the column that exists.
C25_Witness ==
    /\ pc = "mapped"
    /\ ReferenceOf(map_in.mapping, "Tags") = <<"c","a","t",",","z","z">>
    /\ ResolvedColumns("Tags") = {generate_shopify_tags(map_in.df, <<RawCat>>)}
    /\ ResolvedColumns("Tags") # {[i \in 1..Len(map_in.df.rows) |-> EmptyStr]}

(***************************************************************************)
(* The manual combination of main.ETECDatafeedsApp._combine_dataframes,     *)
(* taken when pd.concat of the normalized frames raises.  all_columns is a  *)
(* list made from a set of strings: its order follows the strings' hashes,  *)
(* which the interpreter salts anew at each start, so the order is any      *)
(* order of the union.                                                      *)
(***************************************************************************)
MaxFrames == 3

\* combined_df and df aligned on all_columns (in order of first appearance
\* here; the order of the list is chosen by the step), text columns as str,
\* then concatenated.
AlignAndConcat(combined, df) ==
    LET all_columns == UnionCols(<<combined, df>>, <<>>)
        rows == combined.rows \o df.rows
        aligned(row, col) ==
            IF col \notin DOMAIN row.c THEN EmptyStr
            ELSE IF col \in numeric_columns THEN row.c[col]
            ELSE Str(AsStr(row.c[col]))
    IN  [cols |-> all_columns,
         rows |-> [i \in 1..Len(rows) |->
                     [idx |-> i - 1, c |-> [col \in Range(all_columns) |-> aligned(rows[i], col)]]]]

\* The loop over normalized_data: [df, aligned], aligned when the else
\* branch has run.
RECURSIVE ManualLoop(_, _)
ManualLoop(acc, frames) ==
    IF frames = <<>> THEN acc
    ELSE IF IsEmptyFrame(acc.df)
    THEN ManualLoop([df |-> Head(frames), aligned |-> FALSE], Tail(frames))
    ELSE ManualLoop([df |-> AlignAndConcat(acc.df, Head(frames)), aligned |-> TRUE], Tail(frames))

\* The orders list(set(...)) may give to the columns.
ColumnOrders(cols) ==
    {[i \in 1..Len(cols) |-> cols[p[i]]] : p \in Permutations(1..Len(cols))}

\* The tables the manual combination may return.
manual_combine(frames) ==
    LET normalized_data == [i \in 1..Len(frames) |-> normalize_dataframe_types(frames[i])]
        r == ManualLoop([df |-> NoTable, aligned |-> FALSE], normalized_data)
    IN  IF r.aligned THEN {[r.df EXCEPT !.cols = order] : order \in ColumnOrders(r.df.cols)}
        ELSE {r.df}

FrameColumns == { <<"Title", "Vendor">>, <<"Title", CostCol>>, <<"Vendor", "Tags", "Title">> }

FrameCell(col, k) ==
    IF col = CostCol THEN Num(1000 * k)
    ELSE IF col = "Title" THEN Str(<<"T", DigitChars[k + 1]>>)
    ELSE IF col = "Vendor" THEN Str(<<"v", DigitChars[k + 1]>>)
    ELSE NaN

\* The k-th frame, with n rows.
Frame(cols, k, n) ==
    [cols |-> cols,
     rows |-> [i \in 1..n |-> [idx |-> i - 1, c |-> [col \in Range(cols) |-> FrameCell(col, k)]]]]

FrameLists(MaxLen) ==
    UNION { { [k \in 1..len |-> Frame(cs[k], k, ns[k])] :
                cs \in [1..len -> FrameColumns], ns \in [1..len -> 0..1] } :
            len \in 1..MaxLen }

InitCombine ==
    /\ pc = "call"
    /\ fn_in \in {[fn |-> "combine_dataframes", all_data |-> frames] : frames \in FrameLists(MaxFrames)}
    /\ fn_out = [fn |-> "combine_dataframes", v |-> <<>>]
    /\ QuotingIdle
    /\ norm_in = NoTable /\ norm_out = NoTable
    /\ map_in = [df |-> NoTable, mapping |-> <<>>] /\ map_out = <<>>
    /\ uploaded_files = <<>> /\ supplier_mappings = <<>> /\ shopify_fields = <<>>
    /\ all_data = <<>> /\ combined_df = NoTable /\ final_df = NoTable
    /\ duplicates_info = <<>> /\ outcome = "none" /\ argsort_memo = <<>>
    /\ run = 1 /\ first_result = NoResult

\* One run of the fallback; the runs are separate starts of the program.
ManualCombineStep ==
    /\ pc \in {"call", "returned"}
    /\ fn_in.fn = "combine_dataframes"
    /\ \E combined \in manual_combine(fn_in.all_data) :
          fn_out' = [fn_out EXCEPT !.v = Append(@, combined)]
    /\ pc' = IF pc = "call" THEN "returned" ELSE "rerun"
    /\ UNCHANGED <<merge, quoting, fn_in>>

NextCombine == ManualCombineStep

SpecCombine == InitCombine /\ [][NextCombine]_vars

Combined == pc \in {"returned", "rerun"} /\ fn_in.fn = "combine_dataframes"

\* The rows of the inputs in order, each with the columns of its frame.
RECURSIVE InputRows(_)
InputRows(frames) ==
    IF frames = <<>> THEN <<>>
    ELSE [i \in 1..Len(Head(frames).rows) |->
             [c |-> normalize_dataframe_types(Head(frames)).rows[i].c]]
         \o InputRows(Tail(frames))

InputColumns(frames) == UNION {Range(frames[k].cols) : k \in 1..Len(frames)}

\* C26: the column-union fallback returns as many rows as the inputs hold
\* together, its columns are the union of the inputs' columns with the
\* cells a frame lacks filled by '', and content and column order are the
\* same on every run.
C26_FallbackUnionDeterministic ==
    Combined =>
        LET rows == InputRows(fn_in.all_data)
        IN  /\ \A r \in 1..Len(fn_out.v) :
                  /\ Len(fn_out.v[r].rows) = Len(rows)
                  /\ Range(fn_out.v[r].cols) = InputColumns(fn_in.all_data)
                  /\ \A i \in 1..Len(rows) : \A col \in Range(fn_out.v[r].cols) :
                        col \notin DOMAIN rows[i].c => fn_out.v[r].rows[i].c[col] = EmptyStr
            /\ \A r, s \in 1..Len(fn_out.v) : fn_out.v[r] = fn_out.v[s]

\* Two frames of different columns combined twice, the columns in another
\* order the second time.
C26_Witness ==
    /\ pc = "rerun"
    /\ Len(fn_in.all_data) = 2
    /\ fn_in.all_data[1].cols = <<"Title", "Vendor">>
    /\ fn_in.all_data[2].cols = <<"Title", CostCol>>
    /\ Len(fn_out.v[1].rows) = 2
    /\ fn_out.v[1].rows = fn_out.v[2].rows
    /\ fn_out.v[1].cols # fn_out.v[2].cols

\* A first frame without rows: its columns are not in the result.
C26_EmptyFirstFrame ==
    /\ Combined
    /\ Len(fn_in.all_data) = 2
    /\ fn_in.all_data[1].rows = <<>>
    /\ fn_in.all_data[1].cols = <<"Title", CostCol>>
    /\ fn_in.all_data[2].cols = <<"Title", "Vendor">>
    /\ Len(fn_in.all_data[2].rows) = 1
    /\ fn_out.v[1].cols = <<"Title", "Vendor">>

(***************************************************************************)
(* The effect of the image backfill on the table it is given: the rows the  *)
(* dropna leaves, before and after _preserve_images_from_duplicates, under  *)
(* the sort orders of the pass.                                             *)
(***************************************************************************)
BeforeBackfill == DropNaCost(combined_df)

AfterBackfill == preserve_images_from_duplicates(BeforeBackfill, argsort_memo)

KeptLabels == {final_df.rows[i].idx : i \in 1..Len(final_df.rows)}

ImageFieldsOf(df) == Range(available_image_fields) \cap Range(df.cols)

\* A removed duplicate of the SKU with a valid image in the field, no other
\* such duplicate costing less.
IsFirstValidRemoved(d, sku, f) ==
    /\ d \in RowsWithSku(RemovedRows, sku)
    /\ IsValidImage(d.c[f])
    /\ \A e \in RowsWithSku(RemovedRows, sku) :
          IsValidImage(e.c[f]) => NumLE(d.c[CostCol], e.c[CostCol])

\* C27: the backfill writes only to image fields of kept rows whose value
\* is blank (empty, null, 'none', 'null', 'n/a'), and writes the value of
\* the first removed duplicate, by ascending cost, with a valid image;
\* every other cell of the table is left as it was.
C27_BackfillWritesOnlyBlankImagesOfKeptRows ==
    DedupRan =>
        \A i \in 1..Len(BeforeBackfill.rows) :
            LET b == BeforeBackfill.rows[i]
                a == AfterBackfill.rows[i]
            IN  \A col \in DOMAIN b.c :
                    a.c[col] # b.c[col] =>
                        /\ col \in ImageFieldsOf(combined_df)
                        /\ b.idx \in KeptLabels
                        /\ IsBlankImage(b.c[col])
                        /\ \E d \in RemovedRows :
                              IsFirstValidRemoved(d, b.c[SkuCol], col) /\ a.c[col] = d.c[col]

\* Two rows of one SKU tied on the cost: the backfill wrote the image into
\* the one that the duplicate removal then dropped.
C27_Witness ==
    /\ DedupRan
    /\ \E i \in 1..Len(BeforeBackfill.rows) :
          /\ AfterBackfill.rows[i].c["Image Src"] # BeforeBackfill.rows[i].c["Image Src"]
          /\ IsBlankImage(BeforeBackfill.rows[i].c["Image Src"])
          /\ BeforeBackfill.rows[i].idx \notin KeptLabels

\* C28: the rows of the final table and the removal records together are
\* as many as the input rows with a parseable cost, and every such row is
\* either kept or reported as removed, never both and never neither.
C28_RowsKeptOrReported ==
    DedupRan =>
        /\ Len(final_df.rows) + Len(duplicates_info) = Cardinality(ParseableRows)
        /\ \A r \in ParseableRows : (r.idx \in KeptLabels) # (RowKey(r) \in RecordKeys)

\* Two rows without a SKU and with parseable costs: one is in the final
\* table and no record reports the other.
C28_Witness ==
    /\ DedupRan
    /\ Cardinality({r \in ParseableRows : IsNa(r.c[SkuCol])}) = 2
    /\ Cardinality({i \in 1..Len(final_df.rows) : IsNa(final_df.rows[i].c[SkuCol])}) = 1
    /\ Len(final_df.rows) + Len(duplicates_info) < Cardinality(ParseableRows)

\* The row of the final table with the SKU of a record.
FinalRowsOfSku(sku) == {final_df.rows[i] : i \in FinalIndexesOf(sku)}

\* The rows the backfill wrote an image into.
BackfilledLabels ==
    {BeforeBackfill.rows[i].idx :
        i \in {j \in 1..Len(BeforeBackfill.rows) : AfterBackfill.rows[j] # BeforeBackfill.rows[j]}}

\* C29: the final table and the removal report agree on the kept row: the
\* kept vendor and cost of every record are those of the SKU's row in the
\* final table, no row reported as removed is in the final table, and a
\* row that received an image backfill survives; also under cost ties.
C29_ReportAgreesWithFinalTable ==
    DedupRan =>
        /\ \A i \in 1..Len(duplicates_info) :
              /\ \E k \in FinalRowsOfSku(duplicates_info[i].sku) :
                    /\ k.c["Vendor"] = duplicates_info[i].vendor_kept
                    /\ k.c[CostCol] = duplicates_info[i].cost_kept
              /\ \A k \in FinalRowsOfSku(duplicates_info[i].sku) :
                    RowKey(k) # RemovedKey(duplicates_info[i].sku, duplicates_info[i].vendor_removed,
                                           duplicates_info[i].cost_removed)
        /\ BackfilledLabels \subseteq KeptLabels

\* Two suppliers' rows of one SKU tied on cost: the report names as kept
\* the vendor whose row the final table does not hold.
C29_Witness ==
    /\ DedupRan
    /\ \E i \in 1..Len(duplicates_info) :
          /\ duplicates_info[i].cost_removed = duplicates_info[i].cost_kept
          /\ duplicates_info[i].vendor_removed # duplicates_info[i].vendor_kept
          /\ \A k \in FinalRowsOfSku(duplicates_info[i].sku) :
                k.c["Vendor"] = duplicates_info[i].vendor_removed

(***************************************************************************)
(* The merge pass over supplier rows whose SKU cell is empty or null.       *)
(***************************************************************************)
MaxBlankRows == 3

BlankSkuRows ==
    {[idx |-> 0,
      c |-> (RawSku :> s) @@ (RawCost :> Str(c)) @@ (RawImg :> EmptyStr)
            @@ (RawName :> Str(TitleText))] :
        s \in {EmptyStr, NaN, Str(<<"X","1">>)}, c \in CostTexts}

BlankSkuTables(n) ==
    {TableOf(<<RawSku, RawCost, RawImg, RawName>>, rows) : rows \in SeqOfLen(BlankSkuRows, n)}

InitBlank ==
    /\ \E n1 \in 1..MaxBlankRows : \E n2 \in 0..(MaxBlankRows - n1) :
         \E t1 \in BlankSkuTables(n1) : \E t2 \in BlankSkuTables(n2) :
            uploaded_files =
                <<[name |-> FileName1, df |-> t1], [name |-> FileName2, df |-> t2]>>
    /\ supplier_mappings = (Auscomp :> FullMapping(Auscomp)) @@ (Dicker :> FullMapping(Dicker))
    /\ shopify_fields = ShopifyTemplate
    /\ PassStart
    /\ argsort_memo = <<>>
    /\ run = 1
    /\ first_result = NoResult
    /\ HarnessIdle

NextBlank == ProcessFilesStep \/ CombineStep \/ DedupStep \/ ExportStep

SpecBlank == InitBlank /\ [][NextBlank]_vars

\* The rows with a parseable cost whose normalized SKU is the empty string.
BlankSkuInput == RowsWithSku(ParseableRows, EmptyStr)

BlankSkuRecords == {i \in 1..Len(duplicates_info) : duplicates_info[i].sku = EmptyStr}

\* C30: the rows whose normalized SKU is the empty string form one
\* duplicate group: at most one of them, the cheapest, is in the final
\* table and each of the others has a removal record.
C30_BlankSkuRowsDeduplicated ==
    DedupRan =>
        (BlankSkuInput # {} =>
            /\ Cardinality(FinalIndexesOf(EmptyStr)) <= 1
            /\ \A i \in FinalIndexesOf(EmptyStr) :
                  IsMinCost(final_df.rows[i].c[CostCol], BlankSkuInput)
            /\ Cardinality(BlankSkuRecords) = Cardinality(BlankSkuInput) - 1)

\* Three rows without a SKU (an empty cell and null cells among them) at
\* two costs: the cheapest is kept and two records are written.
C30_Witness ==
    /\ DedupRan
    /\ Cardinality(BlankSkuInput) = 3
    /\ \E i \in 1..Len(uploaded_files) : \E j \in 1..Len(uploaded_files[i].df.rows) :
          IsNa(uploaded_files[i].df.rows[j].c[RawSku])
    /\ \E i \in 1..Len(uploaded_files) : \E j \in 1..Len(uploaded_files[i].df.rows) :
          uploaded_files[i].df.rows[j].c[RawSku] = EmptyStr
    /\ \E r \in BlankSkuInput : r.c[CostCol] = Num(2550)
    /\ Cardinality(FinalIndexesOf(EmptyStr)) = 1
    /\ \A i \in FinalIndexesOf(EmptyStr) : final_df.rows[i].c[CostCol] = Num(1999)
    /\ Cardinality(BlankSkuRecords) = 2

====
